---- MODULE Spec2Model ----
(***************************************************************************)
(* Model of fs3.base.FS (src/fs3/base.py): the closed flag, the instance   *)
(* lock and the derived operations copy / move / movedir, run over a       *)
(* small tree of resources.  The required primitives (getinfo, openbin,    *)
(* remove, ...) are abstract in base.py; they are modelled from the        *)
(* contract of section 4.3 of the specification.                           *)
(***************************************************************************)
EXTENDS Integers, Sequences, FiniteSets, TLC

\* ------------------------------------------------------------------ bounds
MaxLen == 1      \* longest file content written by the environment
MaxTime == 1     \* largest clock value
ChunkSize == 1   \* bytes moved per read/write of the stream copy
SysLimit == 4    \* max_sys_path_length of the backend that declares one
MaxHashLen == 3  \* longest content of a file that is hashed
HashChunk == 2   \* bytes read per chunk by hash (1024 * 1024 in the code)
MaxUrlLen == 3   \* longest string of the alphabet handed to url_quote
MaxIndex == 3    \* largest start or end of a page

Bytes == {0, 1}
Times == 0..MaxTime
\* the clock when a call is made: resources present at construction were
\* last modified at time 0
Clock == 1..MaxTime
Contents == UNION {[1..n -> Bytes] : n \in 0..MaxLen}

\* ------------------------------------------------------------------- paths
\* A path is the sequence of its "/"-separated segments; the root is <<>>.
Root == <<>>
Paths == {Root, <<"a">>, <<"b">>, <<"a", "b">>, <<"b", "b">>}

\* Other spellings of the same paths, as a caller may pass them.
Spellings == {<<"a", "", "b">>, <<"a", "b", "..">>}
RawPaths == Paths \cup Spellings

RECURSIVE normsegs(_, _)
normsegs(segs, acc) ==
    IF segs = <<>> THEN acc
    ELSE LET s == Head(segs)
         IN  IF s = "" \/ s = "." THEN normsegs(Tail(segs), acc)
             ELSE IF s = ".."
                  THEN normsegs(Tail(segs),
                                IF acc = <<>> THEN acc
                                ELSE SubSeq(acc, 1, Len(acc) - 1))
                  ELSE normsegs(Tail(segs), Append(acc, s))

\* abspath(normpath(path))
normpath(path) == normsegs(path, <<>>)

\* characters of one segment, and of a whole path
segchars(s) == IF s = "" THEN {} ELSE IF s = ".." THEN {"."} ELSE {s}
pathchars(path) == UNION {segchars(path[i]) : i \in 1..Len(path)}

seglen(s) == IF s = "" THEN 0 ELSE IF s = ".." THEN 2 ELSE 1
RECURSIVE strlen(_)
strlen(path) ==
    IF path = <<>> THEN 0 ELSE 1 + seglen(Head(path)) + strlen(Tail(path))

dirname(p) == IF p = <<>> THEN p ELSE SubSeq(p, 1, Len(p) - 1)

\* isbase(path1, path2): path1 is a proper prefix directory of path2
isbase(path1, path2) ==
    /\ Len(path1) < Len(path2)
    /\ SubSeq(path2, 1, Len(path1)) = path1

\* ----------------------------------------------------------------- entries
NoEntry == [kind |-> "none", data |-> <<>>, modified |-> 0]
DirEntry == [kind |-> "dir", data |-> <<>>, modified |-> 0]
FileEntry(d, t) == [kind |-> "file", data |-> d, modified |-> t]
Files == {FileEntry(d, t) : d \in Contents, t \in Times}
Entries == {NoEntry, DirEntry} \cup Files

\* ---------------------------------------------------------------- backends
\* A backend class fixes the capability map (_meta) and how getsyspath and
\* geturl answer: "none" always raises NoSysPath / NoURL (the FS default),
\* "always" maps every path, "existing" maps only the paths of existing
\* resources and raises ResourceNotFound for the others.
EmptyMeta == [k \in {} |-> FALSE]

Backends ==
    { [meta |-> EmptyMeta, syspath |-> "none", url |-> "none"],
      [meta |-> [supports_rename |-> TRUE, invalid_path_chars |-> {},
                 max_sys_path_length |-> SysLimit, case_insensitive |-> TRUE],
       syspath |-> "always", url |-> "always"],
      [meta |-> [supports_rename |-> TRUE, case_insensitive |-> FALSE],
       syspath |-> "existing", url |-> "existing"],
      [meta |-> [supports_rename |-> FALSE, invalid_path_chars |-> {"."},
                 max_sys_path_length |-> SysLimit],
       syspath |-> "none", url |-> "none"],
      [meta |-> [invalid_path_chars |-> {"."},
                 max_sys_path_length |-> SysLimit],
       syspath |-> "always", url |-> "none"] }

\* mapping.get(key, default)
get(m, key, default) == IF key \in DOMAIN m THEN m[key] ELSE default

\* ------------------------------------------------------------------- state
VARIABLES
    closed,   \* FS._closed
    meta,     \* FS._meta
    syspath,  \* how the backend's getsyspath answers
    url,      \* how the backend's geturl answers
    fs,       \* the resources of the filesystem, by normalized path
    fs0,      \* the resources at construction
    last,     \* the call that returned last, and how it returned
    args,     \* the arguments of that call, where a caller records them
    lock,     \* FS._lock: the thread that owns it and how often it holds it
    thr,      \* per thread: the call it is in and its position in it
    temp      \* TempFS: its arguments, _cleaned, and how rmtree answers

vars == <<closed, meta, syspath, url, fs, fs0, last, args, lock, thr, temp>>

Threads == {1, 2}

NoCall == [op |-> "init", err |-> "ok", val |-> FALSE, path |-> Root,
           prims |-> {}, listing |-> <<>>, names |-> <<>>, digest |-> -1,
           setinfo |-> <<>>, namespace |-> "", mapping |-> EmptyMeta,
           shared |-> FALSE, text |-> <<>>]

NoArgs == [src |-> Root, dst |-> Root, flag |-> FALSE,
           preserve_time |-> FALSE, now |-> 0, ren |-> "ok"]

Ret(f, e) == [fs |-> f, err |-> e]

\* --------------------------------------------------------------- FS.check
isclosed == closed

check_never == "ok"

check == IF isclosed THEN "FilesystemClosed" ELSE "ok"

\* ------------------------------------------------------------- FS.getmeta
getmeta(namespace) == IF namespace = "standard" THEN meta ELSE EmptyMeta

\* The object getmeta returns: its content, and whether it is the very
\* object the instance keeps in _meta (so that a caller who changes it
\* changes _meta) or a new one.
getmeta_returns_meta_itself(namespace) ==
    [mapping |-> getmeta(namespace), shared |-> namespace = "standard"]

getmeta_returns(namespace) ==
    [mapping |-> getmeta(namespace), shared |-> FALSE]

\* ---------------------------------------------------------- FS.getsyspath
\* err is "ok", "NoSysPath" or "ResourceNotFound"; len is the length of the
\* system path.
getsyspath(f, path) ==
    IF syspath = "none" THEN [err |-> "NoSysPath", len |-> 0]
    ELSE IF syspath = "existing" /\ f[normpath(path)].kind = "none"
         THEN [err |-> "ResourceNotFound", len |-> 0]
         ELSE [err |-> "ok", len |-> strlen(path)]

\* -------------------------------------------------------------- FS.geturl
geturl(f, path) ==
    IF url = "none" THEN "NoURL"
    ELSE IF url = "existing" /\ f[normpath(path)].kind = "none"
         THEN "ResourceNotFound"
         ELSE "ok"

\* -------------------------------------------------------- FS.validatepath
validatepath_at_limit(f, path) ==
    LET checked(closed_err, max_sys_path_length, sys_path) ==
            IF closed_err # "ok" THEN [err |-> closed_err, path |-> Root]
            ELSE IF get(getmeta("standard"), "invalid_path_chars", {})
                       \cap pathchars(path) # {}
            THEN [err |-> "InvalidCharsInPath", path |-> Root]
            ELSE IF max_sys_path_length # -1
                    /\ sys_path.err \notin {"ok", "NoSysPath"}
            THEN [err |-> sys_path.err, path |-> Root]
            ELSE IF /\ max_sys_path_length # -1
                    /\ sys_path.err = "ok"
                    /\ sys_path.len >= max_sys_path_length
            THEN [err |-> "InvalidPath", path |-> Root]
            ELSE [err |-> "ok", path |-> normpath(path)]
    IN  checked(check, get(getmeta("standard"), "max_sys_path_length", -1),
                getsyspath(f, path))

validatepath(f, path) ==
    LET checked(closed_err, max_sys_path_length, sys_path) ==
            IF closed_err # "ok" THEN [err |-> closed_err, path |-> Root]
            ELSE IF get(getmeta("standard"), "invalid_path_chars", {})
                       \cap pathchars(path) # {}
            THEN [err |-> "InvalidCharsInPath", path |-> Root]
            ELSE IF max_sys_path_length # -1
                    /\ sys_path.err \notin {"ok", "NoSysPath"}
            THEN [err |-> sys_path.err, path |-> Root]
            ELSE IF /\ max_sys_path_length # -1
                    /\ sys_path.err = "ok"
                    /\ sys_path.len > max_sys_path_length
            THEN [err |-> "InvalidPath", path |-> Root]
            ELSE [err |-> "ok", path |-> normpath(path)]
    IN  checked(check, get(getmeta("standard"), "max_sys_path_length", -1),
                getsyspath(f, path))

\* ------------------------------------------------------ required primitives
\* Every primitive validates its path first (closed instance, invalid
\* characters), then acts on the normalized path.

getinfo(f, path) ==
    LET at(v) ==
            IF v.err # "ok"
            THEN [err |-> v.err, is_dir |-> FALSE, modified |-> 0]
            ELSE IF f[v.path].kind = "none"
            THEN [err |-> "ResourceNotFound", is_dir |-> FALSE, modified |-> 0]
            ELSE [err |-> "ok", is_dir |-> f[v.path].kind = "dir",
                  modified |-> f[v.path].modified]
    IN  at(validatepath(f, path))

\* openbin(path, "rb"): a stream that reads the file at the returned path
openbin_r(f, path) ==
    LET at(v) ==
            IF v.err # "ok" THEN [err |-> v.err, file |-> Root]
            ELSE IF f[v.path].kind = "none"
            THEN [err |-> "ResourceNotFound", file |-> Root]
            ELSE IF f[v.path].kind = "dir"
            THEN [err |-> "FileExpected", file |-> Root]
            ELSE [err |-> "ok", file |-> v.path]
    IN  at(validatepath(f, path))

\* openbin(path, "wb"): create or truncate
openbin_w(f, path, now) ==
    LET at(v) ==
            IF v.err # "ok" THEN Ret(f, v.err)
            ELSE IF f[v.path].kind = "dir" THEN Ret(f, "FileExpected")
            ELSE IF f[dirname(v.path)].kind # "dir"
            THEN Ret(f, "ResourceNotFound")
            ELSE Ret([f EXCEPT ![v.path] = FileEntry(<<>>, now)], "ok")
    IN  at(validatepath(f, path))

\* write(chunk) on a stream opened by openbin_w
write(f, p, chunk, now) ==
    [f EXCEPT ![p] = FileEntry(f[p].data \o chunk, now)]

remove(f, path) ==
    LET at(v) ==
            IF v.err # "ok" THEN Ret(f, v.err)
            ELSE IF f[v.path].kind = "none" THEN Ret(f, "ResourceNotFound")
            ELSE IF f[v.path].kind = "dir" THEN Ret(f, "FileExpected")
            ELSE Ret([f EXCEPT ![v.path] = NoEntry], "ok")
    IN  at(validatepath(f, path))

children(f, p) == {q \in Paths : q # p /\ dirname(q) = p /\ f[q].kind # "none"}

removedir(f, path) ==
    LET at(v) ==
            IF v.err # "ok" THEN Ret(f, v.err)
            ELSE IF v.path = Root THEN Ret(f, "RemoveRootError")
            ELSE IF f[v.path].kind = "none" THEN Ret(f, "ResourceNotFound")
            ELSE IF f[v.path].kind = "file" THEN Ret(f, "DirectoryExpected")
            ELSE IF children(f, v.path) # {} THEN Ret(f, "DirectoryNotEmpty")
            ELSE Ret([f EXCEPT ![v.path] = NoEntry], "ok")
    IN  at(validatepath(f, path))

makedir(f, path, recreate) ==
    LET at(v) ==
            IF v.err # "ok" THEN Ret(f, v.err)
            ELSE IF f[v.path].kind # "none"
            THEN IF recreate /\ f[v.path].kind = "dir" THEN Ret(f, "ok")
                 ELSE Ret(f, "DirectoryExists")
            ELSE IF f[dirname(v.path)].kind # "dir"
            THEN Ret(f, "ResourceNotFound")
            ELSE Ret([f EXCEPT ![v.path] = DirEntry], "ok")
    IN  at(validatepath(f, path))

\* setinfo(path, {"details": {"modified": t}})
setinfo(f, path, t) ==
    LET at(v) ==
            IF v.err # "ok" THEN Ret(f, v.err)
            ELSE IF f[v.path].kind = "none" THEN Ret(f, "ResourceNotFound")
            ELSE IF f[v.path].kind = "dir" THEN Ret(f, "ok")
            ELSE Ret([f EXCEPT ![v.path].modified = t], "ok")
    IN  at(validatepath(f, path))

\* ---------------------------------------------------------------- FS.exists
exists(f, path) ==
    LET found(info) ==
            IF info.err = "ResourceNotFound" THEN [err |-> "ok", val |-> FALSE]
            ELSE IF info.err # "ok" THEN [err |-> info.err, val |-> FALSE]
            ELSE [err |-> "ok", val |-> TRUE]
    IN  found(getinfo(f, path))

\* ------------------------------------------------------- tools.copy_file_data
min(a, b) == IF a < b THEN a ELSE b

\* read(chunk_size) on a stream at position pos
read(data, pos) == SubSeq(data, pos + 1, min(pos + ChunkSize, Len(data)))

\* src_file and dst_file are the paths of the files the two streams are
\* open on; the source is read as it is at the time of each read.
RECURSIVE copy_file_data(_, _, _, _, _)
copy_file_data(f, src_file, dst_file, pos, now) ==
    LET chunk == read(f[src_file].data, pos)
    IN  IF chunk = <<>> THEN f
        ELSE copy_file_data(write(f, dst_file, chunk, now), src_file,
                            dst_file, pos + Len(chunk), now)

\* ---------------------------------------------------------------- FS.upload
upload_no_data(f, path, file, now) == openbin_w(f, path, now)

upload(f, path, file, now) ==
    LET into(dst_file) ==
            IF dst_file.err # "ok" THEN dst_file
            ELSE Ret(copy_file_data(dst_file.fs, file, normpath(path), 0,
                                    now), "ok")
    IN  into(openbin_w(f, path, now))

\* ------------------------------------------------------------- FS.readbytes
readbytes(f, path) ==
    LET contents(read_file) ==
            IF read_file.err # "ok"
            THEN [err |-> read_file.err, data |-> <<>>]
            ELSE [err |-> "ok", data |-> f[read_file.file].data]
    IN  contents(openbin_r(f, path))

\* ------------------------------------------------- copy.copy_modified_time
copy_modified_time(f, src_path, dst_path) ==
    LET set(src_meta) ==
            IF src_meta.err # "ok" THEN Ret(f, src_meta.err)
            ELSE setinfo(f, dst_path, src_meta.modified)
    IN  set(getinfo(f, src_path))

\* ------------------------------------------------------------------ FS.copy
\* The checks made before any stream is opened: an error, or "copy".
copy_checks_no_exists(f, src_path, dst_path, overwrite) ==
    LET checks(_src, _dst) ==
            IF _src.err # "ok" THEN _src.err
            ELSE IF _dst.err # "ok" THEN _dst.err
            ELSE IF _src.path = _dst.path THEN "IllegalDestination"
            ELSE "copy"
    IN  checks(validatepath(f, src_path), validatepath(f, dst_path))

copy_checks_no_same(f, src_path, dst_path, overwrite) ==
    LET checks(_src, _dst, found) ==
            IF _src.err # "ok" THEN _src.err
            ELSE IF _dst.err # "ok" THEN _dst.err
            ELSE IF ~overwrite /\ found.err # "ok" THEN found.err
            ELSE IF ~overwrite /\ found.val THEN "DestinationExists"
            ELSE "copy"
    IN  checks(validatepath(f, src_path), validatepath(f, dst_path),
               exists(f, normpath(dst_path)))

copy_checks(f, src_path, dst_path, overwrite) ==
    LET checks(_src, _dst, found) ==
            IF _src.err # "ok" THEN _src.err
            ELSE IF _dst.err # "ok" THEN _dst.err
            ELSE IF ~overwrite /\ found.err # "ok" THEN found.err
            ELSE IF ~overwrite /\ found.val THEN "DestinationExists"
            ELSE IF _src.path = _dst.path THEN "IllegalDestination"
            ELSE "copy"
    IN  checks(validatepath(f, src_path), validatepath(f, dst_path),
               exists(f, normpath(dst_path)))

\* open(_src_path, "rb"), upload, copy_modified_time
copy_data(f, _src_path, _dst_path, preserve_time, now) ==
    LET timed(up) ==
            IF up.err # "ok" \/ ~preserve_time THEN up
            ELSE copy_modified_time(up.fs, _src_path, _dst_path)
        from(read_file) ==
            IF read_file.err # "ok" THEN Ret(f, read_file.err)
            ELSE timed(upload(f, _dst_path, read_file.file, now))
    IN  from(openbin_r(f, _src_path))

copy(f, src_path, dst_path, overwrite, preserve_time, now) ==
    LET run(checks) ==
            IF checks # "copy" THEN Ret(f, checks)
            ELSE copy_data(f, normpath(src_path), normpath(dst_path),
                           preserve_time, now)
    IN  run(copy_checks(f, src_path, dst_path, overwrite))

\* ----------------------------------------------------------------- os.rename
\* ren is what the operating system answers when the rename is possible at
\* all; renaming onto a directory or into a missing directory always fails.
os_rename(f, src, dst, ren) ==
    IF \/ ren # "ok"
       \/ f[src].kind # "file"
       \/ f[dst].kind = "dir"
       \/ f[dirname(dst)].kind # "dir"
    THEN Ret(f, "OSError")
    ELSE Ret([f EXCEPT ![dst] = f[src], ![src] = NoEntry], "ok")

\* copy-then-delete-source, the part of FS.move run under the lock
move_fallback(f, _src_path, _dst_path, preserve_time, now) ==
    LET delete(copied) ==
            IF copied.err # "ok" THEN copied
            ELSE remove(copied.fs, _src_path)
    IN  delete(copy_data(f, _src_path, _dst_path, preserve_time, now))

\* ------------------------------------------------------------------ FS.move
\* The checks made before anything is renamed or copied: an error, "return"
\* for the early exit, or "move".
move_checks_no_early_exit(f, src_path, dst_path, overwrite) ==
    LET checks(_src, _dst, found, info) ==
            IF _src.err # "ok" THEN _src.err
            ELSE IF _dst.err # "ok" THEN _dst.err
            ELSE IF ~overwrite /\ found.err # "ok" THEN found.err
            ELSE IF ~overwrite /\ found.val THEN "DestinationExists"
            ELSE IF info.err # "ok" THEN info.err
            ELSE IF info.is_dir THEN "FileExpected"
            ELSE "move"
    IN  checks(validatepath(f, src_path), validatepath(f, dst_path),
               exists(f, normpath(dst_path)), getinfo(f, normpath(src_path)))

move_checks(f, src_path, dst_path, overwrite) ==
    LET checks(_src, _dst, found, info) ==
            IF _src.err # "ok" THEN _src.err
            ELSE IF _dst.err # "ok" THEN _dst.err
            ELSE IF ~overwrite /\ found.err # "ok" THEN found.err
            ELSE IF ~overwrite /\ found.val THEN "DestinationExists"
            ELSE IF info.err # "ok" THEN info.err
            ELSE IF info.is_dir THEN "FileExpected"
            ELSE IF _src.path = _dst.path THEN "return"
            ELSE "move"
    IN  checks(validatepath(f, src_path), validatepath(f, dst_path),
               exists(f, normpath(dst_path)), getinfo(f, normpath(src_path)))

\* the native rename: "fallback" when it did not happen, else how the call
\* returns
move_rename(f, _src_path, _dst_path, preserve_time, ren) ==
    LET after(renamed) ==
            IF renamed.err # "ok" THEN Ret(f, "fallback")
            ELSE IF preserve_time
            THEN copy_modified_time(renamed.fs, _src_path, _dst_path)
            ELSE renamed
        native(src_sys_path, dst_sys_path) ==
            IF src_sys_path.err = "NoSysPath" THEN Ret(f, "fallback")
            ELSE IF src_sys_path.err # "ok" THEN Ret(f, src_sys_path.err)
            ELSE IF dst_sys_path.err = "NoSysPath" THEN Ret(f, "fallback")
            ELSE IF dst_sys_path.err # "ok" THEN Ret(f, dst_sys_path.err)
            ELSE after(os_rename(f, _src_path, _dst_path, ren))
    IN  IF ~get(getmeta("standard"), "supports_rename", FALSE)
        THEN Ret(f, "fallback")
        ELSE native(getsyspath(f, _src_path), getsyspath(f, _dst_path))

move(f, src_path, dst_path, overwrite, preserve_time, now, ren) ==
    LET finish(native) ==
            IF native.err # "fallback" THEN native
            ELSE move_fallback(f, normpath(src_path), normpath(dst_path),
                               preserve_time, now)
        run(checks) ==
            IF checks = "return" THEN Ret(f, "ok")
            ELSE IF checks # "move" THEN Ret(f, checks)
            ELSE finish(move_rename(f, normpath(src_path),
                                    normpath(dst_path), preserve_time, ren))
    IN  run(move_checks(f, src_path, dst_path, overwrite))

\* ------------------------------------------------------------ move.move_dir
descendants(f, src) == {q \in Paths : isbase(src, q) /\ f[q].kind # "none"}

relocate(q, src, dst) == dst \o SubSeq(q, Len(src) + 1, Len(q))

shortest(S) == CHOOSE q \in S : \A r \in S : Len(q) <= Len(r)

\* one resource of the tree: a directory is made, a file is copied
copy_entry(f, q, target, preserve_time, now) ==
    IF f[q].kind = "dir" THEN makedir(f, target, TRUE)
    ELSE copy_data(f, q, target, preserve_time, now)

RECURSIVE copy_tree(_, _, _, _, _, _)
copy_tree(f, todo, src, dst, preserve_time, now) ==
    LET next(q, done) ==
            IF done.err # "ok" THEN done
            ELSE copy_tree(done.fs, todo \ {q}, src, dst, preserve_time, now)
        step(q) ==
            next(q, copy_entry(f, q, relocate(q, src, dst), preserve_time,
                               now))
    IN  IF todo = {} THEN Ret(f, "ok") ELSE step(shortest(todo))

remove_tree(f, src) ==
    [p \in Paths |-> IF p = src \/ isbase(src, p) THEN NoEntry ELSE f[p]]

move_dir(f, src_path, dst_path, preserve_time, now) ==
    LET src == normpath(src_path)
        dst == normpath(dst_path)
        removed(copied) ==
            IF copied.err # "ok" THEN copied
            ELSE Ret(remove_tree(copied.fs, src), "ok")
        filled(made) ==
            IF made.err # "ok" THEN made
            ELSE removed(copy_tree(made.fs, descendants(f, src), src, dst,
                                   preserve_time, now))
        from(info) ==
            IF info.err # "ok" THEN Ret(f, info.err)
            ELSE IF ~info.is_dir THEN Ret(f, "DirectoryExpected")
            ELSE filled(makedir(f, dst, TRUE))
    IN  from(getinfo(f, src))

\* --------------------------------------------------------------- FS.movedir
\* The checks made before move_dir is called: an error, "return" for the
\* early return, or "move_dir".
movedir_checks_exists_first(f, src_path, dst_path, create_) ==
    LET checks(_src, _dst, found) ==
            IF _src.err # "ok" THEN _src.err
            ELSE IF _dst.err # "ok" THEN _dst.err
            ELSE IF _src.path = _dst.path THEN "return"
            ELSE IF ~create_ /\ found.err # "ok" THEN found.err
            ELSE IF ~create_ /\ ~found.val THEN "ResourceNotFound"
            ELSE IF isbase(_src.path, _dst.path) THEN "IllegalDestination"
            ELSE "move_dir"
    IN  checks(validatepath(f, src_path), validatepath(f, dst_path),
               exists(f, dst_path))

movedir_checks_no_return(f, src_path, dst_path, create_) ==
    LET checks(_src, _dst, found) ==
            IF _src.err # "ok" THEN _src.err
            ELSE IF _dst.err # "ok" THEN _dst.err
            ELSE IF _src.path = _dst.path THEN "IllegalDestination"
            ELSE IF isbase(_src.path, _dst.path) THEN "IllegalDestination"
            ELSE IF ~create_ /\ found.err # "ok" THEN found.err
            ELSE IF ~create_ /\ ~found.val THEN "ResourceNotFound"
            ELSE "move_dir"
    IN  checks(validatepath(f, src_path), validatepath(f, dst_path),
               exists(f, dst_path))

movedir_checks(f, src_path, dst_path, create_) ==
    LET checks(_src, _dst, found) ==
            IF _src.err # "ok" THEN _src.err
            ELSE IF _dst.err # "ok" THEN _dst.err
            ELSE IF _src.path = _dst.path THEN "return"
            ELSE IF isbase(_src.path, _dst.path) THEN "IllegalDestination"
            ELSE IF ~create_ /\ found.err # "ok" THEN found.err
            ELSE IF ~create_ /\ ~found.val THEN "ResourceNotFound"
            ELSE "move_dir"
    IN  checks(validatepath(f, src_path), validatepath(f, dst_path),
               exists(f, dst_path))

movedir(f, src_path, dst_path, create_, preserve_time, now) ==
    LET run(checks) ==
            IF checks = "return" THEN Ret(f, "ok")
            ELSE IF checks # "move_dir" THEN Ret(f, checks)
            ELSE move_dir(f, src_path, dst_path, preserve_time, now)
    IN  run(movedir_checks(f, src_path, dst_path, create_))

\* -------------------------------------------------------------- copy.copy_dir
copy_dir(f, src_path, dst_path, preserve_time, now) ==
    LET src == normpath(src_path)
        dst == normpath(dst_path)
        filled(made) ==
            IF made.err # "ok" THEN made
            ELSE copy_tree(made.fs, descendants(f, src), src, dst,
                           preserve_time, now)
    IN  filled(makedir(f, dst, TRUE))

\* --------------------------------------------------------------- FS.copydir
\* The checks made before copy_dir is called: an error, or "copy_dir".
copydir_checks_no_isbase(f, src_path, dst_path, create_) ==
    LET checks(_src, _dst, found, info) ==
            IF _src.err # "ok" THEN _src.err
            ELSE IF _dst.err # "ok" THEN _dst.err
            ELSE IF ~create_ /\ found.err # "ok" THEN found.err
            ELSE IF ~create_ /\ ~found.val THEN "ResourceNotFound"
            ELSE IF info.err # "ok" THEN info.err
            ELSE IF ~info.is_dir THEN "DirectoryExpected"
            ELSE "copy_dir"
    IN  checks(validatepath(f, src_path), validatepath(f, dst_path),
               exists(f, normpath(dst_path)), getinfo(f, normpath(src_path)))

copydir_checks(f, src_path, dst_path, create_) ==
    LET checks(_src, _dst, found, info) ==
            IF _src.err # "ok" THEN _src.err
            ELSE IF _dst.err # "ok" THEN _dst.err
            ELSE IF isbase(_src.path, _dst.path) THEN "IllegalDestination"
            ELSE IF ~create_ /\ found.err # "ok" THEN found.err
            ELSE IF ~create_ /\ ~found.val THEN "ResourceNotFound"
            ELSE IF info.err # "ok" THEN info.err
            ELSE IF ~info.is_dir THEN "DirectoryExpected"
            ELSE "copy_dir"
    IN  checks(validatepath(f, src_path), validatepath(f, dst_path),
               exists(f, normpath(dst_path)), getinfo(f, normpath(src_path)))

copydir(f, src_path, dst_path, create_, preserve_time, now) ==
    LET run(checks) ==
            IF checks # "copy_dir" THEN Ret(f, checks)
            ELSE copy_dir(f, normpath(src_path), normpath(dst_path),
                          preserve_time, now)
    IN  run(copydir_checks(f, src_path, dst_path, create_))

\* ------------------------------------------------------------- walk.Walker
\* listdir(path): the resources directly under a directory
listdir(f, path) ==
    LET at(v) ==
            IF v.err # "ok" THEN [err |-> v.err, val |-> {}]
            ELSE IF f[v.path].kind = "none"
            THEN [err |-> "ResourceNotFound", val |-> {}]
            ELSE IF f[v.path].kind = "file"
            THEN [err |-> "DirectoryExpected", val |-> {}]
            ELSE [err |-> "ok", val |-> children(f, v.path)]
    IN  at(validatepath(f, path))

\* The resource a walk reports next among those still to report: with
\* search "depth" a resource comes after everything under it, with search
\* "breadth" before.
walk_next(todo, search) ==
    IF search = "depth"
    THEN CHOOSE q \in todo : \A r \in todo : Len(q) >= Len(r)
    ELSE CHOOSE q \in todo : \A r \in todo : Len(q) <= Len(r)

\* ------------------------------------------------------------ FS.removetree
\* the loop over the walk: removedir for a directory, remove for a file
RECURSIVE remove_walk(_, _, _)
remove_walk(f, todo, search) ==
    LET next(q, done) ==
            IF done.err # "ok" THEN done
            ELSE remove_walk(done.fs, todo \ {q}, search)
        step(q) ==
            next(q, IF f[q].kind = "dir" THEN removedir(f, q)
                    ELSE remove(f, q))
    IN  IF todo = {} THEN Ret(f, "ok") ELSE step(walk_next(todo, search))

removetree_breadth(f, dir_path) ==
    LET _dir_path == normpath(dir_path)
        last_of(walked) ==
            IF walked.err # "ok" THEN walked
            ELSE IF _dir_path # Root THEN removedir(walked.fs, dir_path)
            ELSE walked
        walk_of(scanned) ==
            IF scanned.err # "ok" THEN Ret(f, scanned.err)
            ELSE last_of(remove_walk(f, descendants(f, _dir_path),
                                     "breadth"))
    IN  walk_of(listdir(f, _dir_path))

removetree_root_too(f, dir_path) ==
    LET _dir_path == normpath(dir_path)
        last_of(walked) ==
            IF walked.err # "ok" THEN walked
            ELSE removedir(walked.fs, dir_path)
        walk_of(scanned) ==
            IF scanned.err # "ok" THEN Ret(f, scanned.err)
            ELSE last_of(remove_walk(f, descendants(f, _dir_path), "depth"))
    IN  walk_of(listdir(f, _dir_path))

removetree(f, dir_path) ==
    LET _dir_path == normpath(dir_path)
        last_of(walked) ==
            IF walked.err # "ok" THEN walked
            ELSE IF _dir_path # Root THEN removedir(walked.fs, dir_path)
            ELSE walked
        walk_of(scanned) ==
            IF scanned.err # "ok" THEN Ret(f, scanned.err)
            ELSE last_of(remove_walk(f, descendants(f, _dir_path), "depth"))
    IN  walk_of(listdir(f, _dir_path))

\* ---------------------------------------------------------------- FS.create
\* val: the value returned
create(f, path, wipe, now) ==
    LET opened(file) == [fs |-> file.fs, err |-> file.err,
                         val |-> file.err = "ok"]
        unless(found) ==
            IF found.err # "ok" THEN [fs |-> f, err |-> found.err, val |-> FALSE]
            ELSE IF found.val THEN [fs |-> f, err |-> "ok", val |-> FALSE]
            ELSE opened(openbin_w(f, path, now))
    IN  IF wipe THEN opened(openbin_w(f, path, now))
        ELSE unless(exists(f, path))

\* --------------------------------------------------------------- FS.opendir
opendir(f, path) ==
    LET sub(info) ==
            IF info.err # "ok" THEN info.err
            ELSE IF ~info.is_dir THEN "DirectoryExpected"
            ELSE "ok"
    IN  sub(getinfo(f, path))

\* -------------------------------------------- tools.get_intermediate_dirs
\* the missing proper ancestors of path, from the root to the leaf
prefix(p, n) == SubSeq(p, 1, n)

get_intermediate_dirs(f, path) ==
    LET at(info, _path) ==
            IF info.err \notin {"ok", "ResourceNotFound"}
            THEN [err |-> info.err, val |-> <<>>]
            ELSE IF \E n \in 1..(Len(_path) - 1) :
                        f[prefix(_path, n)].kind = "file"
            THEN [err |-> "DirectoryExpected", val |-> <<>>]
            ELSE [err |-> "ok",
                  val |-> SelectSeq([n \in 1..(Len(_path) - 1)
                                         |-> prefix(_path, n)],
                                    LAMBDA q : f[q].kind = "none")]
    IN  at(getinfo(f, path), normpath(path))

\* -------------------------------------------------------------- FS.makedirs
\* makedir, with DirectoryExists tolerated if recreate is set
makedir_tolerant(f, path, recreate) ==
    LET tolerate(made) ==
            IF made.err = "DirectoryExists" /\ recreate THEN Ret(f, "ok")
            ELSE made
    IN  tolerate(makedir(f, path, FALSE))

makedir_leaf_first(f, dir_paths, path, recreate) ==
    LET rest(made) ==
            IF made.err # "ok" THEN made
            ELSE IF dir_paths = <<>> THEN made
            ELSE makedir_tolerant(made.fs, Head(dir_paths), recreate)
    IN  rest(makedir_tolerant(f, path, recreate))

RECURSIVE makedir_each(_, _, _, _)
makedir_each(f, dir_paths, path, recreate) ==
    LET rest(made) ==
            IF made.err # "ok" THEN made
            ELSE makedir_each(made.fs, Tail(dir_paths), path, recreate)
    IN  IF dir_paths = <<>> THEN makedir_tolerant(f, path, recreate)
        ELSE rest(makedir_tolerant(f, Head(dir_paths), recreate))

makedirs(f, path, recreate) ==
    LET opened(made) ==
            IF made.err # "ok" THEN Ret(f, made.err)
            ELSE Ret(made.fs, opendir(made.fs, path))
        make(dir_paths) ==
            IF dir_paths.err # "ok" THEN Ret(f, dir_paths.err)
            ELSE opened(makedir_each(f, dir_paths.val, path, recreate))
    IN  IF check # "ok" THEN Ret(f, check)
        ELSE make(get_intermediate_dirs(f, path))

\* ----------------------------------------------------------------- FS.isdir
isdir(f, path) ==
    LET is(info) ==
            IF info.err = "ResourceNotFound" THEN [err |-> "ok", val |-> FALSE]
            ELSE IF info.err # "ok" THEN [err |-> info.err, val |-> FALSE]
            ELSE [err |-> "ok", val |-> info.is_dir]
    IN  is(getinfo(f, path))

\* ---------------------------------------------------------------- FS.isfile
isfile_negates_isdir(f, path) ==
    LET is(dir) == [err |-> dir.err, val |-> dir.err = "ok" /\ ~dir.val]
    IN  is(isdir(f, path))

isfile(f, path) ==
    LET is(info) ==
            IF info.err = "ResourceNotFound" THEN [err |-> "ok", val |-> FALSE]
            ELSE IF info.err # "ok" THEN [err |-> info.err, val |-> FALSE]
            ELSE [err |-> "ok", val |-> ~info.is_dir]
    IN  is(getinfo(f, path))

\* ----------------------------------------------------------------- FS.touch
\* setinfo(path, {"details": details}), and the details it was called with
setinfo_details(f, path, details) ==
    LET issued(set) == [fs |-> set.fs, err |-> set.err, setinfo |-> <<details>>]
    IN  issued(setinfo(f, path, details.modified))

\* now, later: what time.time() returns when touch is entered, and what it
\* would return if it were read again
touch_reads_time_twice(f, path, now, later) ==
    LET times(created) ==
            IF created.err # "ok"
            THEN [fs |-> f, err |-> created.err, setinfo |-> <<>>]
            ELSE IF ~created.val
            THEN setinfo_details(created.fs, path,
                                 [accessed |-> now, modified |-> later])
            ELSE [fs |-> created.fs, err |-> "ok", setinfo |-> <<>>]
    IN  times(create(f, path, FALSE, now))

touch(f, path, now, later) ==
    LET times(created) ==
            IF created.err # "ok"
            THEN [fs |-> f, err |-> created.err, setinfo |-> <<>>]
            ELSE IF ~created.val
            THEN setinfo_details(created.fs, path,
                                 [accessed |-> now, modified |-> now])
            ELSE [fs |-> created.fs, err |-> "ok", setinfo |-> <<>>]
    IN  times(create(f, path, FALSE, now))

\* -------------------------------------------------------------- FS.settimes
\* accessed, modified: a datetime or None
NoTime == [none |-> TRUE, epoch |-> 0]
datetime(t) == [none |-> FALSE, epoch |-> t]
datetime_to_epoch(d) == d.epoch

settimes_modified_now(f, path, accessed, modified, now) ==
    LET with(_accessed) ==
            setinfo_details(f, path,
                [accessed |-> _accessed,
                 modified |-> IF modified = NoTime THEN now
                              ELSE datetime_to_epoch(modified)])
    IN  with(IF accessed = NoTime THEN now ELSE datetime_to_epoch(accessed))

settimes(f, path, accessed, modified, now) ==
    LET with(_accessed) ==
            setinfo_details(f, path,
                [accessed |-> _accessed,
                 modified |-> IF modified = NoTime THEN _accessed
                              ELSE datetime_to_epoch(modified)])
    IN  with(IF accessed = NoTime THEN now ELSE datetime_to_epoch(accessed))

\* ------------------------------------------------------------ FS.writebytes
\* A value passed as contents, data or text is a bytes object or a str.
bytes(d) == [type |-> "bytes", data |-> d]
str(d) == [type |-> "str", data |-> d]
isinstance(value, type) == value.type = type

\* what a text stream writes for a str of ASCII characters: one byte each
encode(text) == [i \in 1..Len(text) |-> text[i]]

writebytes_open_first(f, path, contents, now) ==
    LET into(write_file) ==
            IF write_file.err # "ok" THEN write_file
            ELSE IF ~isinstance(contents, "bytes")
            THEN Ret(write_file.fs, "TypeError")
            ELSE IF contents.data = <<>> THEN write_file
            ELSE Ret(write(write_file.fs, normpath(path), contents.data, now),
                     "ok")
    IN  into(openbin_w(f, path, now))

writebytes(f, path, contents, now) ==
    LET into(write_file) ==
            IF write_file.err # "ok" THEN write_file
            ELSE IF contents.data = <<>> THEN write_file
            ELSE Ret(write(write_file.fs, normpath(path), contents.data, now),
                     "ok")
    IN  IF ~isinstance(contents, "bytes") THEN Ret(f, "TypeError")
        ELSE into(openbin_w(f, path, now))

\* ------------------------------------------------------------- FS.writetext
writetext(f, path, contents, now) ==
    LET into(write_file) ==
            IF write_file.err # "ok" THEN write_file
            ELSE IF contents.data = <<>> THEN write_file
            ELSE Ret(write(write_file.fs, normpath(path),
                           encode(contents.data), now), "ok")
    IN  IF ~isinstance(contents, "str") THEN Ret(f, "TypeError")
        ELSE into(openbin_w(f, path, now))

\* ----------------------------------------------------------- FS.appendbytes
\* openbin(path, "ab"): create if missing, keep the content otherwise
openbin_a(f, path, now) ==
    LET at(v) ==
            IF v.err # "ok" THEN Ret(f, v.err)
            ELSE IF f[v.path].kind = "dir" THEN Ret(f, "FileExpected")
            ELSE IF f[dirname(v.path)].kind # "dir"
            THEN Ret(f, "ResourceNotFound")
            ELSE IF f[v.path].kind = "file" THEN Ret(f, "ok")
            ELSE Ret([f EXCEPT ![v.path] = FileEntry(<<>>, now)], "ok")
    IN  at(validatepath(f, path))

appendbytes(f, path, data, now) ==
    LET onto(append_file) ==
            IF append_file.err # "ok" THEN append_file
            ELSE IF data.data = <<>> THEN append_file
            ELSE Ret(write(append_file.fs, normpath(path), data.data, now),
                     "ok")
    IN  IF ~isinstance(data, "bytes") THEN Ret(f, "TypeError")
        ELSE onto(openbin_a(f, path, now))

\* ------------------------------------------------------------ FS.appendtext
appendtext(f, path, text, now) ==
    LET onto(append_file) ==
            IF append_file.err # "ok" THEN append_file
            ELSE IF text.data = <<>> THEN append_file
            ELSE Ret(write(append_file.fs, normpath(path), encode(text.data),
                           now), "ok")
    IN  IF ~isinstance(text, "str") THEN Ret(f, "TypeError")
        ELSE onto(openbin_a(f, path, now))

\* -------------------------------------------------------------- FS.download
download(f, path) ==
    LET out(read_file) ==
            IF read_file.err # "ok"
            THEN [err |-> read_file.err, data |-> <<>>]
            ELSE [err |-> "ok", data |-> f[read_file.file].data]
    IN  out(openbin_r(f, path))

\* --------------------------------------------------------------- FS.scandir
\* the call and the iteration of what it returns, to the end
scandir(f, path) ==
    LET failed(names) == {q \in names : getinfo(f, q).err # "ok"}
        first(bad) ==
            IF bad = {} THEN "ok" ELSE getinfo(f, CHOOSE q \in bad : TRUE).err
        info(names) ==
            IF names.err # "ok" THEN names.err ELSE first(failed(names.val))
    IN  info(listdir(f, path))

\* ------------------------------------------------------ wildcard patterns
\* A name and a pattern are sequences of characters.  The patterns argument
\* of match and filterdir is None, a list of patterns, or (a caller's
\* mistake) a single string.
None == [kind |-> "none", items |-> <<>>]
List(patterns) == [kind |-> "list", items |-> patterns]
Str(chars) == [kind |-> "str", items |-> chars]

\* bool(patterns)
truthy(patterns) == patterns.kind # "none" /\ patterns.items # <<>>

\* the characters of a segment of a path
segname(s) == IF s = "" THEN <<>> ELSE IF s = ".." THEN <<".", ".">> ELSE <<s>>

lower(c) ==
    CASE c = "A" -> "a" [] c = "B" -> "b" [] c = "P" -> "p" [] c = "Y" -> "y"
      [] OTHER -> c

casefold(chars) == [i \in 1..Len(chars) |-> lower(chars[i])]

\* the position of the "]" that closes a "[" at the head of pattern, or 0
closing(pattern) ==
    LET ends == {i \in 3..Len(pattern) : pattern[i] = "]"}
    IN  IF ends = {} THEN 0 ELSE CHOOSE i \in ends : \A j \in ends : i <= j

\* wildcard matching of one pattern: "*" any characters, "?" one character,
\* "[...]" one of the characters listed
RECURSIVE wild(_, _)
wild(pattern, name) ==
    LET class(end) ==
            IF end = 0
            THEN name # <<>> /\ Head(name) = "["
                 /\ wild(Tail(pattern), Tail(name))
            ELSE /\ name # <<>>
                 /\ \E i \in 2..(end - 1) : pattern[i] = Head(name)
                 /\ wild(SubSeq(pattern, end + 1, Len(pattern)), Tail(name))
    IN  IF pattern = <<>> THEN name = <<>>
        ELSE IF Head(pattern) = "*"
        THEN wild(Tail(pattern), name)
             \/ (name # <<>> /\ wild(pattern, Tail(name)))
        ELSE IF Head(pattern) = "?"
        THEN name # <<>> /\ wild(Tail(pattern), Tail(name))
        ELSE IF Head(pattern) = "[" THEN class(closing(pattern))
        ELSE name # <<>> /\ Head(name) = Head(pattern)
             /\ wild(Tail(pattern), Tail(name))

\* wildcard.get_matcher(patterns, case_sensitive)(name)
get_matcher(patterns, case_sensitive, name) ==
    \/ patterns = <<>>
    \/ \E i \in 1..Len(patterns) :
           IF case_sensitive THEN wild(patterns[i], name)
           ELSE wild(casefold(patterns[i]), casefold(name))

\* ----------------------------------------------------------------- FS.match
\* match with the case sensitivity fixed, whatever the capability map says
match_ignores_meta(patterns, name) ==
    IF patterns.kind = "none" THEN [err |-> "ok", val |-> TRUE]
    ELSE IF patterns.kind = "str" THEN [err |-> "TypeError", val |-> FALSE]
    ELSE [err |-> "ok", val |-> get_matcher(patterns.items, TRUE, name)]

\* iterating a Python string yields its characters, one string each
iterate(patterns) == [i \in 1..Len(patterns.items) |-> <<patterns.items[i]>>]

\* match without the isinstance test: the string is handed to get_matcher
match_iterates_string(patterns, name) ==
    IF patterns.kind = "none" THEN [err |-> "ok", val |-> TRUE]
    ELSE [err |-> "ok",
          val |-> get_matcher(IF patterns.kind = "str" THEN iterate(patterns)
                              ELSE patterns.items,
                              ~get(getmeta("standard"), "case_insensitive",
                                   FALSE),
                              name)]

match(patterns, name) ==
    IF patterns.kind = "none" THEN [err |-> "ok", val |-> TRUE]
    ELSE IF patterns.kind = "str" THEN [err |-> "TypeError", val |-> FALSE]
    ELSE [err |-> "ok",
          val |-> get_matcher(patterns.items,
                              ~get(getmeta("standard"), "case_insensitive",
                                   FALSE),
                              name)]

\* ------------------------------------------------------------ glob patterns
\* glob matching of one pattern against a path: "*" and "?" stay inside one
\* segment, "**" crosses segments, "[...]" is one of the characters listed
RECURSIVE glob_wild(_, _)
glob_wild(pattern, path) ==
    LET class(end) ==
            IF end = 0
            THEN path # <<>> /\ Head(path) = "["
                 /\ glob_wild(Tail(pattern), Tail(path))
            ELSE /\ path # <<>>
                 /\ \E i \in 2..(end - 1) : pattern[i] = Head(path)
                 /\ glob_wild(SubSeq(pattern, end + 1, Len(pattern)), Tail(path))
    IN  IF pattern = <<>> THEN path = <<>>
        ELSE IF Len(pattern) >= 2 /\ pattern[1] = "*" /\ pattern[2] = "*"
        THEN glob_wild(Tail(Tail(pattern)), path)
             \/ (path # <<>> /\ glob_wild(pattern, Tail(path)))
        ELSE IF Head(pattern) = "*"
        THEN glob_wild(Tail(pattern), path)
             \/ (path # <<>> /\ Head(path) # "/"
                 /\ glob_wild(pattern, Tail(path)))
        ELSE IF Head(pattern) = "?"
        THEN path # <<>> /\ Head(path) # "/"
             /\ glob_wild(Tail(pattern), Tail(path))
        ELSE IF Head(pattern) = "[" THEN class(closing(pattern))
        ELSE path # <<>> /\ Head(path) = Head(pattern)
             /\ glob_wild(Tail(pattern), Tail(path))

\* a pattern is anchored at the root: "dir/file.txt" and "/dir/file.txt" are
\* the same pattern
RECURSIVE anchored(_)
anchored(pattern) ==
    IF pattern # <<>> /\ Head(pattern) = "/" THEN anchored(Tail(pattern))
    ELSE <<"/">> \o pattern

\* glob.match(pattern, path), glob.imatch(pattern, path)
glob_match(pattern, path) == glob_wild(anchored(pattern), path)

glob_imatch(pattern, path) ==
    glob_wild(casefold(anchored(pattern)), casefold(path))

\* the patterns a path may still grow into: every leading run of segments of
\* the pattern (the root, which has none, included), with and without the
\* separator that follows it
prefixes(pattern) ==
    LET seps == {i \in 2..Len(pattern) : pattern[i] = "/"}
    IN  {SubSeq(pattern, 1, i - 1) : i \in seps}
            \cup {SubSeq(pattern, 1, i) : i \in seps} \cup {<<>>, pattern}

\* glob.get_matcher(patterns, case_sensitive, accept_prefix)(path)
glob_get_matcher(patterns, case_sensitive, accept_prefix, path) ==
    \/ patterns = <<>>
    \/ \E i \in 1..Len(patterns) :
       \E pattern \in IF accept_prefix THEN prefixes(patterns[i])
                      ELSE {patterns[i]} :
           IF case_sensitive THEN glob_match(pattern, path)
           ELSE glob_imatch(pattern, path)

\* ------------------------------------------------------------ FS.match_glob
\* match_glob that does not hand accept_prefix to the matcher
match_glob_drops_accept_prefix(patterns, path, accept_prefix) ==
    IF patterns.kind = "none" THEN [err |-> "ok", val |-> TRUE]
    ELSE IF path = <<>> \/ path[1] # "/"
    THEN [err |-> "ValueError", val |-> FALSE]
    ELSE IF patterns.kind = "str" THEN [err |-> "TypeError", val |-> FALSE]
    ELSE [err |-> "ok",
          val |-> glob_get_matcher(patterns.items,
                                   ~get(getmeta("standard"),
                                        "case_insensitive", FALSE),
                                   FALSE, path)]

match_glob(patterns, path, accept_prefix) ==
    IF patterns.kind = "none" THEN [err |-> "ok", val |-> TRUE]
    ELSE IF path = <<>> \/ path[1] # "/"
    THEN [err |-> "ValueError", val |-> FALSE]
    ELSE IF patterns.kind = "str" THEN [err |-> "TypeError", val |-> FALSE]
    ELSE [err |-> "ok",
          val |-> glob_get_matcher(patterns.items,
                                   ~get(getmeta("standard"),
                                        "case_insensitive", FALSE),
                                   accept_prefix, path)]

\* ------------------------------------------------------------- FS.filterdir
\* info: the Info of one resource
Info(f, q) == [name |-> segname(q[Len(q)]), is_dir |-> f[q].kind = "dir",
               is_file |-> f[q].kind # "dir"]

match_dir(patterns, info) ==
    IF info.is_file THEN [err |-> "ok", val |-> TRUE]
    ELSE match(patterns, info.name)

match_file(patterns, info) ==
    IF info.is_dir THEN [err |-> "ok", val |-> TRUE]
    ELSE match(patterns, info.name)

negated(matched) == [matched EXCEPT !.val = matched.err = "ok" /\ ~matched.val]

exclude_dir(patterns, info) ==
    IF info.is_file THEN [err |-> "ok", val |-> TRUE]
    ELSE negated(match(patterns, info.name))

exclude_file(patterns, info) ==
    IF info.is_dir THEN [err |-> "ok", val |-> TRUE]
    ELSE negated(match(patterns, info.name))

\* filters: the partial applications appended, in the order of the code
filters_of(files, dirs, exclude_dirs, exclude_files) ==
    (IF truthy(files) THEN <<[fn |-> "match_file", patterns |-> files]>>
     ELSE <<>>)
    \o (IF truthy(dirs) THEN <<[fn |-> "match_dir", patterns |-> dirs]>>
        ELSE <<>>)
    \o (IF truthy(exclude_dirs)
        THEN <<[fn |-> "exclude_dir", patterns |-> exclude_dirs]>> ELSE <<>>)
    \o (IF truthy(exclude_files)
        THEN <<[fn |-> "exclude_file", patterns |-> exclude_files]>>
        ELSE <<>>)

apply_filter(_filter, info) ==
    CASE _filter.fn = "match_file" -> match_file(_filter.patterns, info)
      [] _filter.fn = "match_dir" -> match_dir(_filter.patterns, info)
      [] _filter.fn = "exclude_dir" -> exclude_dir(_filter.patterns, info)
      [] _filter.fn = "exclude_file" -> exclude_file(_filter.patterns, info)

\* all(_filter(info) for _filter in filters)
RECURSIVE all_filters(_, _)
all_filters(filters, info) ==
    LET rest(passed) ==
            IF passed.err # "ok" \/ ~passed.val THEN passed
            ELSE all_filters(Tail(filters), info)
    IN  IF filters = <<>> THEN [err |-> "ok", val |-> TRUE]
        ELSE rest(apply_filter(Head(filters), info))

\* the iteration of the filtered resources, to the end
RECURSIVE filter_each(_, _, _, _)
filter_each(f, resources, filters, kept) ==
    LET next(passed) ==
            IF passed.err # "ok" THEN [err |-> passed.err, names |-> <<>>]
            ELSE filter_each(f, Tail(resources), filters,
                             IF passed.val THEN Append(kept, Head(resources))
                             ELSE kept)
    IN  IF resources = <<>> THEN [err |-> "ok", names |-> kept]
        ELSE next(all_filters(filters, Info(f, Head(resources))))

filterdir_files_filter_all(f, path, listing, files, dirs, exclude_dirs, exclude_files) ==
    LET filtered(resources) ==
            IF resources # "ok" THEN [err |-> resources, names |-> <<>>]
            ELSE [err |-> "ok",
                  names |-> SelectSeq(listing,
                                LAMBDA q : ~truthy(files)
                                           \/ match(files, Info(f, q).name).val)]
    IN  filtered(scandir(f, path))

\* listing: the resources of the directory in the order scandir gives them
filterdir(f, path, listing, files, dirs, exclude_dirs, exclude_files) ==
    LET filtered(resources) ==
            IF resources # "ok" THEN [err |-> resources, names |-> <<>>]
            ELSE filter_each(f, listing,
                             filters_of(files, dirs, exclude_dirs,
                                        exclude_files), <<>>)
    IN  filtered(scandir(f, path))

\* ------------------------------------------------------------------ paging
\* page is None or a tuple (start, end)
NoPage == <<>>

\* itertools.islice(iter_info, start, end)
islice(iter_info, page) ==
    IF page = NoPage THEN iter_info
    ELSE SubSeq(iter_info, page[1] + 1, min(page[2], Len(iter_info)))

\* FS.scandir with page; listing: the names in the order listdir gives them
scandir_page(f, path, listing, page) ==
    LET sliced(resources) ==
            IF resources # "ok" THEN [err |-> resources, names |-> <<>>]
            ELSE [err |-> "ok", names |-> islice(listing, page)]
    IN  sliced(scandir(f, path))

\* filterdir that takes the page of the directory and filters that
filterdir_page_before_filters(f, path, listing, files, dirs, exclude_dirs, exclude_files, page) ==
    filterdir(f, path, islice(listing, page), files, dirs, exclude_dirs,
              exclude_files)

\* FS.filterdir with page
filterdir_page(f, path, listing, files, dirs, exclude_dirs, exclude_files, page) ==
    LET sliced(resources) ==
            IF resources.err # "ok" THEN resources
            ELSE [err |-> "ok", names |-> islice(resources.names, page)]
    IN  sliced(filterdir(f, path, listing, files, dirs, exclude_dirs,
                         exclude_files))

\* ------------------------------------------------------------------ FS.hash
\* hashlib: a hash object is the state reached from the initial state of its
\* algorithm by absorbing the bytes it was updated with, one by one; the
\* digest is that state.
algorithms == {"md5", "sha256"}
modulus(name) == IF name = "md5" THEN 7 ELSE 11

absorb(name, state, byte) == (3 * state + byte + 1) % modulus(name)

RECURSIVE update(_, _, _)
update(name, state, chunk) ==
    IF chunk = <<>> THEN state
    ELSE update(name, absorb(name, state, Head(chunk)), Tail(chunk))

hashlib_new(name) ==
    IF name \in algorithms THEN [err |-> "ok", state |-> 0]
    ELSE [err |-> "ValueError", state |-> 0]

\* binary_file.read(size) at position pos
read_chunk(data, pos, size) == SubSeq(data, pos + 1, min(pos + size, Len(data)))

hash_first_chunk(name, data, pos, state) ==
    update(name, state, read_chunk(data, pos, HashChunk))

RECURSIVE hash_chunks(_, _, _, _)
hash_chunks(name, data, pos, state) ==
    LET next(chunk) ==
            IF chunk = <<>> THEN state
            ELSE hash_chunks(name, data, pos + Len(chunk),
                             update(name, state, chunk))
    IN  next(read_chunk(data, pos, HashChunk))

hash_open_first(f, path, name) ==
    LET new(binary_file, hash_object) ==
            IF binary_file.err # "ok"
            THEN [err |-> binary_file.err, digest |-> -1]
            ELSE IF hash_object.err # "ok"
            THEN [err |-> "UnsupportedHash", digest |-> -1]
            ELSE [err |-> "ok",
                  digest |-> hash_chunks(name, f[binary_file.file].data, 0,
                                         hash_object.state)]
    IN  new(openbin_r(f, path), hashlib_new(name))

hash(f, path, name) ==
    LET digest(binary_file) ==
            IF binary_file.err # "ok"
            THEN [err |-> binary_file.err, digest |-> -1]
            ELSE [err |-> "ok",
                  digest |-> hash_chunks(name, f[binary_file.file].data, 0,
                                         hashlib_new(name).state)]
        new(v, hash_object) ==
            IF v.err # "ok" THEN [err |-> v.err, digest |-> -1]
            ELSE IF hash_object.err # "ok"
            THEN [err |-> "UnsupportedHash", digest |-> -1]
            ELSE digest(openbin_r(f, path))
    IN  new(validatepath(f, path), hashlib_new(name))

\* ------------------------------------------- the primitives a call reaches
\* The required primitives (getinfo, listdir, makedir, openbin, remove,
\* removedir, setinfo) that a call of a derived operation calls, whether or
\* not the primitive then fails.
reached_by_create(f, path, wipe) ==
    LET after(found) ==
            IF found.err = "ok" /\ ~found.val THEN {"getinfo", "openbin"}
            ELSE {"getinfo"}
    IN  IF wipe THEN {"openbin"} ELSE after(exists(f, path))

reached_by_touch(f, path, now) ==
    LET after(created) ==
            IF created.err = "ok" /\ ~created.val THEN {"setinfo"} ELSE {}
    IN  reached_by_create(f, path, FALSE) \cup after(create(f, path, FALSE, now))

reached_by_scandir(f, path) ==
    LET after(names) ==
            IF names.err = "ok" /\ names.val # {} THEN {"listdir", "getinfo"}
            ELSE {"listdir"}
    IN  after(listdir(f, path))

reached_by_makedirs(f, path, recreate) ==
    LET dirs(dir_paths) ==
            IF dir_paths.err # "ok" THEN {"getinfo"}
            ELSE {"getinfo", "makedir"}
    IN  IF check # "ok" THEN {} ELSE dirs(get_intermediate_dirs(f, path))

reached_by_removetree(f, dir_path) ==
    LET _dir_path == normpath(dir_path)
        under == descendants(f, _dir_path)
        after(scanned) ==
            IF scanned.err # "ok" THEN {"listdir"}
            ELSE {"listdir"}
                 \cup (IF under # {} THEN {"getinfo"} ELSE {})
                 \cup (IF \E q \in under : f[q].kind = "file"
                       THEN {"remove"} ELSE {})
                 \cup (IF _dir_path # Root \/ \E q \in under : f[q].kind = "dir"
                       THEN {"removedir"} ELSE {})
    IN  after(listdir(f, _dir_path))

reached(op, f, path, flag, now) ==
    CASE op \in {"exists", "isdir", "isfile", "opendir"} -> {"getinfo"}
      [] op \in {"readbytes", "download", "writebytes", "appendbytes",
                 "upload"} -> {"openbin"}
      [] op = "create" -> reached_by_create(f, path, flag)
      [] op = "touch" -> reached_by_touch(f, path, now)
      [] op = "scandir" -> reached_by_scandir(f, path)
      [] op = "makedirs" -> reached_by_makedirs(f, path, flag)
      [] op = "removetree" -> reached_by_removetree(f, path)

\* ---------------------------------------------------------------- FS.close
close_toggle == ~closed

close == TRUE

\* ------------------------------------------------------------ FS.hassyspath
hassyspath(f, path) ==
    LET has(sys) ==
            IF sys.err = "ok" THEN [err |-> "ok", val |-> TRUE]
            ELSE IF sys.err = "NoSysPath" THEN [err |-> "ok", val |-> FALSE]
            ELSE [err |-> sys.err, val |-> FALSE]
    IN  has(getsyspath(f, path))

\* ---------------------------------------------------------------- FS.hasurl
hasurl(f, path) ==
    LET has(u) ==
            IF u = "ok" THEN [err |-> "ok", val |-> TRUE]
            ELSE IF u = "NoURL" THEN [err |-> "ok", val |-> FALSE]
            ELSE [err |-> u, val |-> FALSE]
    IN  has(geturl(f, path))

\* ------------------------------------------------------------------ calls
\* One action per public operation: the whole call, from entry to return.
unchanged_instance == UNCHANGED <<meta, syspath, url, fs0, lock, thr, temp>>

call_close ==
    /\ closed' = close
    /\ last' = [NoCall EXCEPT !.op = "close"]
    /\ UNCHANGED fs
    /\ unchanged_instance

\* FS.__exit__
call_exit ==
    /\ closed' = close
    /\ last' = [NoCall EXCEPT !.op = "exit"]
    /\ UNCHANGED fs
    /\ unchanged_instance

\* ------------------------------------------------------------------ TempFS
\* An instance that is no TempFS, and a TempFS as constructed: its temporary
\* directory is the root of fs, and rmtree is how shutil.rmtree answers.
NoTemp == [is_temp |-> FALSE, ignore_clean_errors |-> TRUE,
           cleaned |-> FALSE, rmtree |-> "ok"]

TempFS(ignore_clean_errors, answer) ==
    [is_temp |-> TRUE, ignore_clean_errors |-> ignore_clean_errors,
     cleaned |-> FALSE, rmtree |-> answer]

\* shutil.rmtree(temp_dir): the directory and all it holds are gone, or the
\* call raises
rmtree(f, t) ==
    IF t.rmtree = "ok" THEN [fs |-> [q \in Paths |-> NoEntry], err |-> "ok"]
    ELSE [fs |-> f, err |-> t.rmtree]

\* clean that reports no failure, whatever ignore_clean_errors says
clean_swallows_errors(f, t) ==
    LET removed(r) ==
            [fs |-> r.fs, temp |-> [t EXCEPT !.cleaned = TRUE], err |-> "ok"]
    IN  IF t.cleaned THEN [fs |-> f, temp |-> t, err |-> "ok"]
        ELSE removed(rmtree(f, t))

\* TempFS.clean
clean(f, t) ==
    LET removed(r) ==
            IF r.err # "ok" /\ ~t.ignore_clean_errors
            THEN [fs |-> r.fs, temp |-> t, err |-> "OperationFailed"]
            ELSE [fs |-> r.fs, temp |-> [t EXCEPT !.cleaned = TRUE],
                  err |-> "ok"]
    IN  IF t.cleaned THEN [fs |-> f, temp |-> t, err |-> "ok"]
        ELSE removed(rmtree(f, t))

\* close that leaves the directory to be removed when the object is collected
temp_close_leaves_directory(f, t) ==
    [fs |-> f, temp |-> t, err |-> "ok", closed |-> close]

\* TempFS.close: clean, then FS.close
temp_close(f, t) ==
    LET closing_(c) ==
            [fs |-> c.fs, temp |-> c.temp, err |-> c.err,
             closed |-> IF c.err = "ok" THEN close ELSE closed]
    IN  closing_(clean(f, t))

call_temp_close ==
    /\ \E r \in {temp_close(fs, temp)} :
           /\ fs' = r.fs
           /\ temp' = r.temp
           /\ closed' = r.closed
           /\ last' = [NoCall EXCEPT !.op = "close", !.err = r.err]
    /\ UNCHANGED <<meta, syspath, url, fs0, lock, thr>>

\* ---------------------------------------------------------------- _url_tools
\* A string is a sequence of characters; "\n" is the newline.
\* "." of a regular expression: any character but a newline
dot(c) == c # "\n"

\* _has_drive_letter that tests only the first three characters
has_drive_letter_three_chars(path_snippet) ==
    /\ Len(path_snippet) >= 3
    /\ path_snippet[2] = ":"
    /\ path_snippet[3] \in {"/", "\\"}

\* re.match(".:[/\\\\].*$", path_snippet) is not None: ".*" stops at a
\* newline and "$" is the end of the string or the newline that ends it
has_drive_letter(path_snippet) ==
    /\ Len(path_snippet) >= 3
    /\ dot(path_snippet[1])
    /\ path_snippet[2] = ":"
    /\ path_snippet[3] \in {"/", "\\"}
    /\ \A i \in 4..Len(path_snippet) :
           path_snippet[i] = "\n" => i = Len(path_snippet)

\* urllib.parse.quote of one character: letters, digits and "/" are kept
percent(c) ==
    CASE c = ":" -> <<"%", "3", "A">>
      [] c = " " -> <<"%", "2", "0">>
      [] c = "\\" -> <<"%", "5", "C">>
      [] c = "\n" -> <<"%", "0", "A">>
      [] c = "%" -> <<"%", "2", "5">>
      [] OTHER -> <<c>>

RECURSIVE quote(_)
quote(string) ==
    IF string = <<>> THEN <<>> ELSE percent(Head(string)) \o quote(Tail(string))

upper(c) ==
    CASE c = "a" -> "A" [] c = "b" -> "B" [] c = "p" -> "P" [] c = "y" -> "Y"
      [] OTHER -> c

\* nturl2path.pathname2url: "/" + quote(component) for every component of
\* the path between backslashes that is not empty
RECURSIVE nt_components(_, _)
nt_components(string, start) ==
    IF string = <<>> THEN <<>>
    ELSE IF Head(string) = "\\" THEN nt_components(Tail(string), TRUE)
    ELSE (IF start THEN <<"/">> ELSE <<>>) \o percent(Head(string))
             \o nt_components(Tail(string), FALSE)

nt_pathname2url(p) ==
    LET colons == {i \in 1..Len(p) : p[i] = ":"}
        slashes(s) == [i \in 1..Len(s) |-> IF s[i] = "\\" THEN "/" ELSE s[i]]
        unc(s) ==
            IF Len(s) >= 2 /\ s[1] = "\\" /\ s[2] = "\\"
            THEN <<"\\", "\\">> \o s ELSE s
        drive(i) ==
            <<"/", "/", "/">>
                \o quote([j \in 1..(i - 1) |-> upper(p[j])]) \o <<":">>
                \o nt_components(SubSeq(p, i + 1, Len(p)), TRUE)
    IN  IF colons = {} THEN [err |-> "ok", text |-> quote(slashes(unc(p)))]
        ELSE IF Cardinality(colons) >= 2 \/ (\E i \in colons : i > 2)
        THEN [err |-> "OSError", text |-> <<>>]
        ELSE [err |-> "ok", text |-> drive(CHOOSE i \in colons : TRUE)]

\* urllib.request.pathname2url on a platform
pathname2url(windows, p) ==
    IF windows THEN nt_pathname2url(p) ELSE [err |-> "ok", text |-> quote(p)]

\* url_quote that quotes the whole string on every platform
url_quote_whole_string(windows, path_snippet) ==
    pathname2url(windows, path_snippet)

url_quote(windows, path_snippet) ==
    LET split(i) ==
            [drive_letter |-> SubSeq(path_snippet, 1, i - 1),
             path |-> SubSeq(path_snippet, i + 1, Len(path_snippet))]
        format(drive_letter, path) ==
            IF path.err # "ok" THEN path
            ELSE [err |-> "ok", text |-> drive_letter \o <<":">> \o path.text]
        quoted(parts) ==
            format(parts.drive_letter, pathname2url(windows, parts.path))
    IN  IF windows /\ has_drive_letter(path_snippet)
        THEN quoted(split(CHOOSE i \in 1..Len(path_snippet) :
                              /\ path_snippet[i] = ":"
                              /\ \A j \in 1..(i - 1) : path_snippet[j] # ":"))
        ELSE pathname2url(windows, path_snippet)

call_has_drive_letter(path_snippet) ==
    /\ last' = [NoCall EXCEPT !.op = "has_drive_letter",
                              !.val = has_drive_letter(path_snippet)]
    /\ UNCHANGED <<closed, fs>>
    /\ unchanged_instance

call_url_quote(windows, path_snippet) ==
    /\ \E r \in {url_quote(windows, path_snippet)} :
           last' = [NoCall EXCEPT !.op = "url_quote", !.err = r.err,
                                  !.text = r.text]
    /\ UNCHANGED <<closed, fs>>
    /\ unchanged_instance

call_isclosed ==
    /\ last' = [NoCall EXCEPT !.op = "isclosed", !.val = isclosed]
    /\ UNCHANGED <<closed, fs>>
    /\ unchanged_instance

call_getmeta(namespace) ==
    /\ \E r \in {getmeta_returns(namespace)} :
           last' = [NoCall EXCEPT !.op = "getmeta",
                                  !.val = (r.mapping = meta),
                                  !.namespace = namespace,
                                  !.mapping = r.mapping,
                                  !.shared = r.shared]
    /\ UNCHANGED <<closed, fs>>
    /\ unchanged_instance

\* The caller assigns to a key of the mapping that its last call, getmeta,
\* returned to it.
assigned(mapping, key, value) ==
    [k \in DOMAIN mapping \cup {key} |-> IF k = key THEN value ELSE mapping[k]]

mutate_returned(key, value) ==
    /\ last.op \in {"getmeta", "mutate"}
    /\ last' = [last EXCEPT !.op = "mutate",
                            !.mapping = assigned(last.mapping, key, value)]
    /\ meta' = IF last.shared THEN assigned(last.mapping, key, value) ELSE meta
    /\ UNCHANGED <<closed, fs, syspath, url, fs0, lock, thr, temp>>

\* FS.lock
call_lock ==
    /\ last' = [NoCall EXCEPT !.op = "lock"]
    /\ UNCHANGED <<closed, fs>>
    /\ unchanged_instance

call_hassyspath(path) ==
    /\ \E r \in {hassyspath(fs, path)} :
           last' = [NoCall EXCEPT !.op = "hassyspath", !.err = r.err,
                                  !.val = r.val]
    /\ UNCHANGED <<closed, fs>>
    /\ unchanged_instance

call_hasurl(path) ==
    /\ \E r \in {hasurl(fs, path)} :
           last' = [NoCall EXCEPT !.op = "hasurl", !.err = r.err,
                                  !.val = r.val]
    /\ UNCHANGED <<closed, fs>>
    /\ unchanged_instance

call_validatepath(path) ==
    /\ \E r \in {validatepath(fs, path)} :
           last' = [NoCall EXCEPT !.op = "validatepath", !.err = r.err,
                                  !.path = r.path]
    /\ UNCHANGED <<closed, fs>>
    /\ unchanged_instance

call_exists(path) ==
    /\ \E r \in {exists(fs, path)} :
           last' = [NoCall EXCEPT !.op = "exists", !.err = r.err,
                                  !.val = r.val,
                                  !.prims = reached("exists", fs, path,
                                                    FALSE, 0)]
    /\ UNCHANGED <<closed, fs>>
    /\ unchanged_instance

call_copy(src_path, dst_path, overwrite, preserve_time, now) ==
    /\ \E r \in {copy(fs, src_path, dst_path, overwrite, preserve_time, now)} :
           /\ fs' = r.fs
           /\ last' = [NoCall EXCEPT !.op = "copy", !.err = r.err]
    /\ UNCHANGED closed
    /\ unchanged_instance

call_move(src_path, dst_path, overwrite, preserve_time, now, ren) ==
    /\ \E r \in {move(fs, src_path, dst_path, overwrite, preserve_time, now,
                      ren)} :
           /\ fs' = r.fs
           /\ last' = [NoCall EXCEPT !.op = "move", !.err = r.err]
    /\ UNCHANGED closed
    /\ unchanged_instance

\* the paths a movedir writes stay inside the modelled tree
fits(f, src_path, dst_path) ==
    \A q \in descendants(f, normpath(src_path)) :
        relocate(q, normpath(src_path), normpath(dst_path)) \in Paths

call_movedir(src_path, dst_path, create_, preserve_time, now) ==
    /\ movedir_checks(fs, src_path, dst_path, create_) = "move_dir"
           => fits(fs, src_path, dst_path)
    /\ \E r \in {movedir(fs, src_path, dst_path, create_, preserve_time, now)} :
           /\ fs' = r.fs
           /\ last' = [NoCall EXCEPT !.op = "movedir", !.err = r.err]
    /\ UNCHANGED closed
    /\ unchanged_instance

call_copydir(src_path, dst_path, create_, preserve_time, now) ==
    /\ copydir_checks(fs, src_path, dst_path, create_) = "copy_dir"
           => fits(fs, src_path, dst_path)
    /\ \E r \in {copydir(fs, src_path, dst_path, create_, preserve_time, now)} :
           /\ fs' = r.fs
           /\ last' = [NoCall EXCEPT !.op = "copydir", !.err = r.err]
    /\ UNCHANGED closed
    /\ unchanged_instance

call_removetree(dir_path) ==
    /\ \E r \in {removetree(fs, dir_path)} :
           /\ fs' = r.fs
           /\ last' = [NoCall EXCEPT !.op = "removetree", !.err = r.err,
                                  !.prims = reached("removetree", fs,
                                                    dir_path, FALSE, 0)]
    /\ UNCHANGED closed
    /\ unchanged_instance

call_isdir(path) ==
    /\ \E r \in {isdir(fs, path)} :
           last' = [NoCall EXCEPT !.op = "isdir", !.err = r.err,
                                  !.val = r.val,
                                  !.prims = reached("isdir", fs, path,
                                                    FALSE, 0)]
    /\ UNCHANGED <<closed, fs>>
    /\ unchanged_instance

call_isfile(path) ==
    /\ \E r \in {isfile(fs, path)} :
           last' = [NoCall EXCEPT !.op = "isfile", !.err = r.err,
                                  !.val = r.val,
                                  !.prims = reached("isfile", fs, path,
                                                    FALSE, 0)]
    /\ UNCHANGED <<closed, fs>>
    /\ unchanged_instance

call_opendir(path) ==
    /\ \E r \in {opendir(fs, path)} :
           last' = [NoCall EXCEPT !.op = "opendir", !.err = r,
                                  !.prims = reached("opendir", fs, path,
                                                    FALSE, 0)]
    /\ UNCHANGED <<closed, fs>>
    /\ unchanged_instance

call_scandir(path) ==
    /\ \E r \in {scandir(fs, path)} :
           last' = [NoCall EXCEPT !.op = "scandir", !.err = r,
                                  !.prims = reached("scandir", fs, path,
                                                    FALSE, 0)]
    /\ UNCHANGED <<closed, fs>>
    /\ unchanged_instance

call_readbytes(path) ==
    /\ \E r \in {readbytes(fs, path)} :
           last' = [NoCall EXCEPT !.op = "readbytes", !.err = r.err,
                                  !.prims = reached("readbytes", fs, path,
                                                    FALSE, 0)]
    /\ UNCHANGED <<closed, fs>>
    /\ unchanged_instance

call_download(path) ==
    /\ \E r \in {download(fs, path)} :
           last' = [NoCall EXCEPT !.op = "download", !.err = r.err,
                                  !.prims = reached("download", fs, path,
                                                    FALSE, 0)]
    /\ UNCHANGED <<closed, fs>>
    /\ unchanged_instance

\* a write keeps the content of a file within the modelled contents
call_writebytes(path, contents, now) ==
    /\ \E r \in {writebytes(fs, path, contents, now)} :
           /\ r.fs \in [Paths -> Entries]
           /\ fs' = r.fs
           /\ last' = [NoCall EXCEPT !.op = "writebytes", !.err = r.err,
                                  !.prims = reached("writebytes", fs, path,
                                                    FALSE, now)]
    /\ UNCHANGED closed
    /\ unchanged_instance

call_appendbytes(path, data, now) ==
    /\ \E r \in {appendbytes(fs, path, data, now)} :
           /\ r.fs \in [Paths -> Entries]
           /\ fs' = r.fs
           /\ last' = [NoCall EXCEPT !.op = "appendbytes", !.err = r.err,
                                  !.prims = reached("appendbytes", fs, path,
                                                    FALSE, now)]
    /\ UNCHANGED closed
    /\ unchanged_instance

\* file: the file the uploaded stream reads
call_writetext(path, contents, now) ==
    /\ \E r \in {writetext(fs, path, contents, now)} :
           /\ r.fs \in [Paths -> Entries]
           /\ fs' = r.fs
           /\ last' = [NoCall EXCEPT !.op = "writetext", !.err = r.err]
    /\ UNCHANGED closed
    /\ unchanged_instance

call_appendtext(path, text, now) ==
    /\ \E r \in {appendtext(fs, path, text, now)} :
           /\ r.fs \in [Paths -> Entries]
           /\ fs' = r.fs
           /\ last' = [NoCall EXCEPT !.op = "appendtext", !.err = r.err]
    /\ UNCHANGED closed
    /\ unchanged_instance

call_upload(path, file, now) ==
    /\ fs[file].kind = "file"
    /\ \E r \in {upload(fs, path, file, now)} :
           /\ fs' = r.fs
           /\ last' = [NoCall EXCEPT !.op = "upload", !.err = r.err,
                                  !.prims = reached("upload", fs, path,
                                                    FALSE, now)]
    /\ UNCHANGED closed
    /\ unchanged_instance

call_settimes(path, accessed, modified, now) ==
    /\ \E r \in {settimes(fs, path, accessed, modified, now)} :
           /\ fs' = r.fs
           /\ last' = [NoCall EXCEPT !.op = "settimes", !.err = r.err,
                                  !.setinfo = r.setinfo]
    /\ UNCHANGED closed
    /\ unchanged_instance

\* a second reading of the clock would give a later time
call_touch(path, now) ==
    /\ \E r \in {touch(fs, path, now, now + 1)} :
           /\ fs' = r.fs
           /\ last' = [NoCall EXCEPT !.op = "touch", !.err = r.err,
                                  !.setinfo = r.setinfo,
                                  !.prims = reached("touch", fs, path,
                                                    FALSE, now)]
    /\ UNCHANGED closed
    /\ unchanged_instance

\* the orders in which a backend may list the resources of a directory
orderings(S) ==
    {o \in [1..Cardinality(S) -> S] :
        \A i, j \in 1..Cardinality(S) : o[i] = o[j] => i = j}

call_filterdir(path, files, dirs, exclude_dirs, exclude_files) ==
    /\ \E listing \in orderings(children(fs, normpath(path))) :
       \E r \in {filterdir(fs, path, listing, files, dirs, exclude_dirs,
                           exclude_files)} :
           last' = [NoCall EXCEPT !.op = "filterdir", !.err = r.err,
                                  !.listing = listing, !.names = r.names]
    /\ UNCHANGED <<closed, fs>>
    /\ unchanged_instance

call_match(patterns, name) ==
    /\ \E r \in {match(patterns, name)} :
           last' = [NoCall EXCEPT !.op = "match", !.err = r.err,
                                  !.val = r.val]
    /\ UNCHANGED <<closed, fs>>
    /\ unchanged_instance

call_match_glob(patterns, path, accept_prefix) ==
    /\ \E r \in {match_glob(patterns, path, accept_prefix)} :
           last' = [NoCall EXCEPT !.op = "match_glob", !.err = r.err,
                                  !.val = r.val]
    /\ UNCHANGED <<closed, fs>>
    /\ unchanged_instance

call_scandir_page(path, page) ==
    /\ \E listing \in orderings(children(fs, normpath(path))) :
       \E r \in {scandir_page(fs, path, listing, page)} :
           last' = [NoCall EXCEPT !.op = "scandir", !.err = r.err,
                                  !.listing = listing, !.names = r.names]
    /\ UNCHANGED <<closed, fs>>
    /\ unchanged_instance

call_filterdir_page(path, files, dirs, exclude_dirs, exclude_files, page) ==
    /\ \E listing \in orderings(children(fs, normpath(path))) :
       \E r \in {filterdir_page(fs, path, listing, files, dirs, exclude_dirs,
                                exclude_files, page)} :
           last' = [NoCall EXCEPT !.op = "filterdir", !.err = r.err,
                                  !.listing = listing, !.names = r.names]
    /\ UNCHANGED <<closed, fs>>
    /\ unchanged_instance

call_hash(path, name) ==
    /\ \E r \in {hash(fs, path, name)} :
           last' = [NoCall EXCEPT !.op = "hash", !.err = r.err,
                                  !.digest = r.digest]
    /\ UNCHANGED <<closed, fs>>
    /\ unchanged_instance

call_create(path, wipe, now) ==
    /\ \E r \in {create(fs, path, wipe, now)} :
           /\ fs' = r.fs
           /\ last' = [NoCall EXCEPT !.op = "create", !.err = r.err,
                                  !.val = r.val,
                                  !.prims = reached("create", fs, path,
                                                    wipe, now)]
    /\ UNCHANGED closed
    /\ unchanged_instance

call_makedirs(path, recreate) ==
    /\ \E r \in {makedirs(fs, path, recreate)} :
           /\ fs' = r.fs
           /\ last' = [NoCall EXCEPT !.op = "makedirs", !.err = r.err,
                                  !.prims = reached("makedirs", fs, path,
                                                    recreate, 0)]
    /\ UNCHANGED closed
    /\ unchanged_instance

\* ------------------------------------------------------------ construction
\* FS.__init__: the instance is open; the storage holds any well-formed tree.
wellformed(f) ==
    /\ f[Root] = DirEntry
    /\ \A p \in Paths \ {Root} : f[p].kind # "none" => f[dirname(p)].kind = "dir"

\* a top-level entry and the entry under it
Branches ==
    {<<NoEntry, NoEntry>>}
        \cup {<<FileEntry(d, 0), NoEntry>> : d \in Contents}
        \cup {<<DirEntry, NoEntry>>, <<DirEntry, DirEntry>>}
        \cup {<<DirEntry, FileEntry(d, 0)>> : d \in Contents}

tree(a, b) ==
    [p \in Paths |-> CASE p = <<"a">> -> a[1]
                      [] p = <<"a", "b">> -> a[2]
                      [] p = <<"b">> -> b[1]
                      [] p = <<"b", "b">> -> b[2]
                      [] OTHER -> DirEntry]

Trees == {tree(a, b) : a, b \in Branches}

\* threading.RLock()
NoLock == [owner |-> 0, count |-> 0]

Idle == [pc |-> "idle", op |-> "none", src |-> Root, dst |-> Root,
         flag |-> FALSE, preserve_time |-> FALSE, now |-> 0, ren |-> "ok",
         pos |-> 0, err |-> "ok", val |-> FALSE, data |-> <<>>]

construct(trees) ==
    /\ closed = FALSE
    /\ lock = NoLock
    /\ thr = [t \in Threads |-> Idle]
    /\ \E b \in Backends : meta = b.meta /\ syspath = b.syspath /\ url = b.url
    /\ fs \in trees
    /\ fs0 = fs
    /\ last = NoCall
    /\ temp = NoTemp

\* ------------------------------------------------- life of one instance
\* A few trees and a few paths, every operation, any number of calls.
LifeTrees ==
    { f \in Trees :
        /\ f[<<"a">>].kind = "dir"
        /\ f[<<"a", "b">>] = FileEntry(<<1>>, 0)
        /\ f[<<"b">>].kind = "none" }

LifePaths == {<<"a">>, <<"b">>, <<"a", "", "b">>}

Init == construct(LifeTrees) /\ args = NoArgs

Next ==
    /\ \/ call_close
       \/ call_exit
       \/ call_isclosed
       \/ \E ns \in {"standard", "other"} : call_getmeta(ns)
       \/ \E key \in {"supports_rename", "case_insensitive"},
             value \in BOOLEAN : mutate_returned(key, value)
       \/ call_lock
       \/ \E p \in LifePaths : call_hassyspath(p)
       \/ \E p \in LifePaths : call_hasurl(p)
       \/ \E p \in LifePaths : call_validatepath(p)
       \/ \E p \in LifePaths : call_exists(p)
       \/ \E s, d \in LifePaths, o, t \in BOOLEAN, now \in Clock :
              call_copy(s, d, o, t, now)
       \/ \E s, d \in LifePaths, o, t \in BOOLEAN, now \in Clock,
             ren \in {"ok", "OSError"} : call_move(s, d, o, t, now, ren)
       \/ \E s, d \in LifePaths, c, t \in BOOLEAN, now \in Clock :
              call_movedir(s, d, c, t, now)
    /\ UNCHANGED args

Spec == Init /\ [][Next]_vars

\* ------------------------------------------------- one call on any tree
\* The caller makes one call on an instance holding any tree and keeps the
\* arguments it passed.
InitAny == construct(Trees) /\ args = NoArgs

Args(s, d, f, t, now, ren) ==
    [src |-> s, dst |-> d, flag |-> f, preserve_time |-> t, now |-> now,
     ren |-> ren]

NextCopy ==
    /\ last.op = "init"
    /\ \E s, d \in RawPaths, o, t \in BOOLEAN, now \in Clock :
           call_copy(s, d, o, t, now) /\ args' = Args(s, d, o, t, now, "ok")

SpecCopy == InitAny /\ [][NextCopy]_vars

NextMove ==
    /\ last.op = "init"
    /\ \E s, d \in RawPaths, o, t \in BOOLEAN, now \in Clock,
          ren \in {"ok", "OSError"} :
           call_move(s, d, o, t, now, ren) /\ args' = Args(s, d, o, t, now, ren)

SpecMove == InitAny /\ [][NextMove]_vars

NextMoveDir ==
    /\ last.op = "init"
    /\ \E s, d \in RawPaths, c, t \in BOOLEAN, now \in Clock :
           call_movedir(s, d, c, t, now) /\ args' = Args(s, d, c, t, now, "ok")

SpecMoveDir == InitAny /\ [][NextMoveDir]_vars

NextCopyDir ==
    /\ last.op = "init"
    /\ \E s, d \in RawPaths, c, t \in BOOLEAN, now \in Clock :
           call_copydir(s, d, c, t, now) /\ args' = Args(s, d, c, t, now, "ok")

SpecCopyDir == InitAny /\ [][NextCopyDir]_vars

\* a call that takes one path records it as src
Arg(p, flag) == Args(p, Root, flag, FALSE, 0, "ok")

NextRemoveTree ==
    /\ last.op = "init"
    /\ \E p \in RawPaths : call_removetree(p) /\ args' = Arg(p, FALSE)

SpecRemoveTree == InitAny /\ [][NextRemoveTree]_vars

NextMakeDirs ==
    /\ last.op = "init"
    /\ \E p \in RawPaths, r \in BOOLEAN :
           call_makedirs(p, r) /\ args' = Arg(p, r)

SpecMakeDirs == InitAny /\ [][NextMakeDirs]_vars

NextCreate ==
    /\ last.op = "init"
    /\ \E p \in RawPaths, w \in BOOLEAN, now \in Clock :
           call_create(p, w, now) /\ args' = Args(p, Root, w, FALSE, now, "ok")

SpecCreate == InitAny /\ [][NextCreate]_vars

\* trees that differ in what exists, not in what the files hold
ListTrees ==
    {f \in Trees : \A q \in Paths : f[q].kind = "file" => f[q] = FileEntry(<<>>, 0)}

ListPaths == {Root, <<"b">>}

PatternArgs ==
    {None, List(<<>>), List(<<(<<"a">>)>>), List(<<(<<"[", "b", "]">>), (<<"A">>)>>)}

FilterArgs(p, files, dirs, exclude_dirs, exclude_files) ==
    [src |-> p, dst |-> Root, files |-> files, dirs |-> dirs,
     exclude_dirs |-> exclude_dirs, exclude_files |-> exclude_files]

InitFilterDir == construct(ListTrees) /\ args = NoArgs

NextFilterDir ==
    /\ last.op = "init"
    /\ \E p \in ListPaths, files, dirs, xd, xf \in PatternArgs :
           /\ call_filterdir(p, files, dirs, xd, xf)
           /\ args' = FilterArgs(p, files, dirs, xd, xf)

SpecFilterDir == InitFilterDir /\ [][NextFilterDir]_vars

\* names, paths and patterns as Python strings: sequences of characters
init_py == <<"i", "n", "i", "t", ".", "p", "y">>
star_py == <<"*", ".", "p", "y">>
star_PY == <<"*", ".", "P", "Y">>
dir_file_txt == <<"d", "i", "r", "/", "f", "i", "l", "e", ".", "t", "x", "t">>

MatchNames == {init_py, <<"A">>, <<"a">>, <<"*">>, <<>>}

MatchPatterns ==
    {None, List(<<>>), List(<<star_py>>), List(<<star_PY>>),
     List(<<(<<"a">>), (<<"?", "y">>)>>), List(<<(<<"*">>)>>),
     Str(star_py), Str(<<"a">>), Str(<<"*">>), Str(<<>>)}

dir_gile_txt == <<"d", "i", "r", "/", "g", "i", "l", "e", ".", "t", "x", "t">>

GlobPaths ==
    {<<"/", "d", "i", "r", "/">>, <<"/", "d", "i", "r">>, <<"/", "d", "i">>,
     <<"/">> \o dir_file_txt, <<"/">> \o dir_gile_txt, dir_file_txt,
     <<"/">>, <<"/", "a">>, <<"/", "A">>, <<"a">>, <<>>}

GlobPatterns ==
    {None, List(<<>>), List(<<dir_file_txt>>), List(<<(<<"a">>)>>),
     List(<<(<<"*", "*", "/", "*", ".", "t", "x", "t">>)>>),
     Str(dir_file_txt), Str(<<"a">>), Str(<<"*">>), Str(<<>>)}

MatchArgs(patterns, name, accept_prefix) ==
    [src |-> Root, dst |-> Root, patterns |-> patterns, name |-> name,
     accept_prefix |-> accept_prefix]

InitMatch == construct(LifeTrees) /\ args = NoArgs

NextMatch ==
    \/ /\ last.op = "init"
       /\ \E patterns \in MatchPatterns, name \in MatchNames :
              /\ call_match(patterns, name)
              /\ args' = MatchArgs(patterns, name, FALSE)
    \/ /\ last.op = "init"
       /\ \E patterns \in GlobPatterns, path \in GlobPaths,
             accept_prefix \in BOOLEAN :
              /\ call_match_glob(patterns, path, accept_prefix)
              /\ args' = MatchArgs(patterns, path, accept_prefix)

SpecMatch == InitMatch /\ [][NextMatch]_vars

\* one call of scandir or filterdir with a page, or with none
Pages == {NoPage} \cup {<<start, end>> : start, end \in 0..MaxIndex}

PageArgs(p, files, exclude_dirs, page) ==
    [src |-> p, dst |-> Root, files |-> files, dirs |-> None,
     exclude_dirs |-> exclude_dirs, exclude_files |-> None, page |-> page]

NextPage ==
    /\ last.op = "init"
    /\ \E p \in ListPaths, page \in Pages :
           \/ /\ call_scandir_page(p, page)
              /\ args' = PageArgs(p, None, None, page)
           \/ \E files, xd \in PatternArgs :
                  /\ call_filterdir_page(p, files, None, xd, None, page)
                  /\ args' = PageArgs(p, files, xd, page)

SpecPage == InitFilterDir /\ [][NextPage]_vars

\* a file of any content up to MaxHashLen bytes, hashed on an instance that
\* is open or closed
HashContents == UNION {[1..n -> Bytes] : n \in 0..MaxHashLen}

HashTrees ==
    {[q \in Paths |-> IF q = Root THEN DirEntry
                      ELSE IF q = <<"a">> THEN FileEntry(d, 0)
                      ELSE IF q = <<"b">> THEN b
                      ELSE NoEntry] :
        d \in HashContents, b \in {NoEntry, DirEntry}}

HashNames == algorithms \cup {"crc0"}

HashArgs(p, name) == [src |-> p, dst |-> Root, name |-> name]

InitHash == construct(HashTrees) /\ args = NoArgs

NextHash ==
    \/ /\ last.op = "init"
       /\ call_close
       /\ UNCHANGED args
    \/ /\ last.op \in {"init", "close"}
       /\ \E p \in RawPaths, name \in HashNames :
              call_hash(p, name) /\ args' = HashArgs(p, name)

SpecHash == InitHash /\ [][NextHash]_vars

\* one call of settimes
TimeArgs == {NoTime} \cup {datetime(t) : t \in Times}

SetTimesArgs(p, accessed, modified, now) ==
    [src |-> p, dst |-> Root, accessed |-> accessed, modified |-> modified,
     now |-> now]

NextSetTimes ==
    /\ last.op = "init"
    /\ \E p \in RawPaths, accessed, modified \in TimeArgs, now \in Clock :
           /\ call_settimes(p, accessed, modified, now)
           /\ args' = SetTimesArgs(p, accessed, modified, now)

SpecSetTimes == InitAny /\ [][NextSetTimes]_vars

\* one call that writes a value, bytes or str, to a path
Values == {bytes(d) : d \in Contents} \cup {str(d) : d \in Contents}

WriteArgs(p, value, now) ==
    [src |-> p, dst |-> Root, value |-> value, now |-> now]

NextWrite ==
    /\ last.op = "init"
    /\ \E p \in RawPaths, value \in Values, now \in Clock :
           /\ args' = WriteArgs(p, value, now)
           /\ \/ call_writebytes(p, value, now)
              \/ call_appendbytes(p, value, now)
              \/ call_writetext(p, value, now)
              \/ call_appendtext(p, value, now)

SpecWrite == InitAny /\ [][NextWrite]_vars

\* a TempFS from construction on: files are written, resources are asked
\* for, and close is called any number of times
InitTempFS ==
    /\ closed = FALSE
    /\ lock = NoLock
    /\ thr = [t \in Threads |-> Idle]
    /\ \E b \in {b \in Backends : b.syspath = "always"} :
           meta = b.meta /\ syspath = b.syspath /\ url = b.url
    /\ fs = [q \in Paths |-> IF q = Root THEN DirEntry ELSE NoEntry]
    /\ fs0 = fs
    /\ last = NoCall
    /\ \E ignore_clean_errors \in BOOLEAN, answer \in {"ok", "boom"} :
           temp = TempFS(ignore_clean_errors, answer)
    /\ args = NoArgs

TempPaths == {Root, <<"a">>, <<"b">>, <<"a", "", "b">>}

NextTempFS ==
    \/ call_temp_close /\ args' = NoArgs
    \/ \E p \in TempPaths, d \in {<<>>, <<1>>} :
           /\ call_writebytes(p, bytes(d), 1)
           /\ args' = WriteArgs(p, bytes(d), 1)
    \/ \E p \in TempPaths :
           call_exists(p) /\ args' = Args(p, Root, FALSE, FALSE, 0, "ok")
    \/ \E p \in TempPaths :
           call_hassyspath(p) /\ args' = Args(p, Root, FALSE, FALSE, 0, "ok")

SpecTempFS == InitTempFS /\ [][NextTempFS]_vars

\* the strings of the documentation of _has_drive_letter, and every string
\* of up to MaxUrlLen characters of a small alphabet
D_Data == <<"D", ":", "/", "D", "a", "t", "a">>
C_System32_test ==
    <<"C", ":", "\\", "S", "y", "s", "t", "e", "m", "3", "2", "\\", " ",
      "t", "e", "s", "t">>
tmp_abc_test ==
    <<"/", "t", "m", "p", "/", "a", "b", "c", ":", "t", "e", "s", "t">>

D_a_newline_b == <<"D", ":", "/", "a", "\n", "b">>

UrlChars == {"D", "a", ":", "/", "\\", " ", "\n"}

UrlStrings ==
    {D_Data, C_System32_test, tmp_abc_test, D_a_newline_b}
        \cup UNION {[1..n -> UrlChars] : n \in 0..MaxUrlLen}

UrlArgs(windows, path_snippet) ==
    [src |-> Root, dst |-> Root, windows |-> windows,
     path_snippet |-> path_snippet]

InitUrl ==
    /\ construct({[q \in Paths |-> IF q = Root THEN DirEntry ELSE NoEntry]})
    /\ args = NoArgs

NextUrl ==
    /\ last.op = "init"
    /\ \E windows \in BOOLEAN, path_snippet \in UrlStrings :
           /\ args' = UrlArgs(windows, path_snippet)
           /\ \/ call_has_drive_letter(path_snippet)
              \/ call_url_quote(windows, path_snippet)

SpecUrl == InitUrl /\ [][NextUrl]_vars

\* an instance, open or closed, and one call of a derived operation
NextDerived ==
    \/ /\ last.op = "init"
       /\ call_close
       /\ UNCHANGED args
    \/ /\ last.op \in {"init", "close"}
       /\ \E p \in RawPaths, flag \in BOOLEAN, now \in Clock :
              /\ args' = Args(p, Root, flag, FALSE, now, "ok")
              /\ \/ ~flag /\ call_exists(p)
                 \/ ~flag /\ call_isdir(p)
                 \/ ~flag /\ call_isfile(p)
                 \/ call_create(p, flag, now)
                 \/ ~flag /\ call_touch(p, now)
                 \/ ~flag /\ call_readbytes(p)
                 \/ \E contents \in Contents :
                        ~flag /\ call_writebytes(p, bytes(contents), now)
                 \/ \E data \in Contents :
                        ~flag /\ call_appendbytes(p, bytes(data), now)
                 \/ ~flag /\ call_scandir(p)
                 \/ ~flag /\ call_opendir(p)
                 \/ call_makedirs(p, flag)
                 \/ ~flag /\ call_removetree(p)
                 \/ \E file \in Paths : ~flag /\ call_upload(p, file, now)
                 \/ ~flag /\ call_download(p)
                 \/ ~flag /\ call_validatepath(p)

SpecDerived == InitAny /\ [][NextDerived]_vars

\* ------------------------------------------------------- threads
\* Several threads call into one instance.  A step is one primitive call (or
\* one chunk of a stream copy) together with the thread's own computation
\* up to its next primitive call.  Each thread makes one call, and every
\* write of these calls happens at clock time MaxTime.
acquire(t) == [owner |-> t, count |-> lock.count + 1]

\* an exit that unwinds the innermost "with self._lock" block only
release_innermost_only(n) ==
    IF lock.count - 1 = 0 THEN NoLock
    ELSE [owner |-> lock.owner, count |-> lock.count - 1]

\* leave n nested "with self._lock" blocks
release(n) ==
    IF lock.count - n = 0 THEN NoLock
    ELSE [owner |-> lock.owner, count |-> lock.count - n]

can_acquire_not_reentrant(t) == lock.owner = 0

\* a lock that excludes nobody
can_acquire_any_thread(t) == TRUE

can_acquire(t) == lock.owner \in {0, t}

at(t, label) == thr[t].pc = label

goto(t, label) == thr' = [thr EXCEPT ![t].pc = label]

return(t, e) == thr' = [thr EXCEPT ![t].pc = "done", ![t].err = e]

unchanged_caller ==
    UNCHANGED <<closed, meta, syspath, url, fs0, last, args, temp>>

begin(t, op, s, d, o, p, now, ren, label) ==
    /\ at(t, "idle")
    /\ thr' = [thr EXCEPT ![t] = [Idle EXCEPT !.pc = label, !.op = op,
                                              !.src = s, !.dst = d,
                                              !.flag = o,
                                              !.preserve_time = p,
                                              !.now = now, !.ren = ren]]
    /\ UNCHANGED <<fs, lock>>
    /\ unchanged_caller

\* FS.exists, FS.isfile, FS.readbytes: no lock is taken
t_exists(t, path) ==
    /\ at(t, "idle")
    /\ thr' = [thr EXCEPT ![t] = [Idle EXCEPT !.pc = "done", !.op = "exists",
                                              !.src = path,
                                              !.err = exists(fs, path).err,
                                              !.val = exists(fs, path).val]]
    /\ UNCHANGED <<fs, lock>>
    /\ unchanged_caller

t_isfile(t, path) ==
    /\ at(t, "idle")
    /\ thr' = [thr EXCEPT ![t] = [Idle EXCEPT !.pc = "done", !.op = "isfile",
                                              !.src = path,
                                              !.err = isfile(fs, path).err,
                                              !.val = isfile(fs, path).val]]
    /\ UNCHANGED <<fs, lock>>
    /\ unchanged_caller

t_readbytes(t, path) ==
    /\ at(t, "idle")
    /\ thr' = [thr EXCEPT ![t] = [Idle EXCEPT !.pc = "done",
                                              !.op = "readbytes",
                                              !.src = path,
                                              !.err = readbytes(fs, path).err,
                                              !.data = readbytes(fs, path).data]]
    /\ UNCHANGED <<fs, lock>>
    /\ unchanged_caller

\* FS.copy
t_copy(t, s, d, o, p) ==
    begin(t, "copy", s, d, o, p, MaxTime, "ok", "copy_lock")

\* with self._lock; validatepath(src_path); validatepath(dst_path)
t_copy_lock(t) ==
    /\ at(t, "copy_lock")
    /\ can_acquire(t)
    /\ LET _src == validatepath(fs, thr[t].src)
           _dst == validatepath(fs, thr[t].dst)
       IN  IF _src.err # "ok" THEN return(t, _src.err) /\ UNCHANGED lock
           ELSE IF _dst.err # "ok" THEN return(t, _dst.err) /\ UNCHANGED lock
           ELSE goto(t, "copy_exists") /\ lock' = acquire(t)
    /\ UNCHANGED fs
    /\ unchanged_caller

\* if not overwrite and self.exists(_dst_path); if _src_path == _dst_path
t_copy_exists(t) ==
    /\ at(t, "copy_exists")
    /\ LET _src_path == normpath(thr[t].src)
           _dst_path == normpath(thr[t].dst)
           found == exists(fs, _dst_path)
       IN  IF ~thr[t].flag /\ found.err # "ok"
           THEN return(t, found.err) /\ lock' = release(1)
           ELSE IF ~thr[t].flag /\ found.val
           THEN return(t, "DestinationExists") /\ lock' = release(1)
           ELSE IF _src_path = _dst_path
           THEN return(t, "IllegalDestination") /\ lock' = release(1)
           ELSE goto(t, "copy_open") /\ UNCHANGED lock
    /\ UNCHANGED fs
    /\ unchanged_caller

\* self.open(_src_path, "rb")
t_copy_open(t) ==
    /\ at(t, "copy_open")
    /\ LET read_file == openbin_r(fs, normpath(thr[t].src))
       IN  IF read_file.err # "ok"
           THEN return(t, read_file.err) /\ lock' = release(1)
           ELSE goto(t, "upload_open") /\ UNCHANGED lock
    /\ UNCHANGED fs
    /\ unchanged_caller

\* FS.upload: with self._lock; self.openbin(path, mode="wb")
t_upload_open(t) ==
    /\ at(t, "upload_open")
    /\ can_acquire(t)
    /\ LET dst_file == openbin_w(fs, normpath(thr[t].dst), thr[t].now)
       IN  IF dst_file.err # "ok"
           THEN /\ return(t, dst_file.err)
                /\ lock' = release(1)
                /\ UNCHANGED fs
           ELSE /\ thr' = [thr EXCEPT ![t].pc = "upload_copy", ![t].pos = 0]
                /\ lock' = acquire(t)
                /\ fs' = dst_file.fs
    /\ unchanged_caller

\* tools.copy_file_data: one read and one write, or the end of the stream
t_upload_copy(t) ==
    /\ at(t, "upload_copy")
    /\ LET src_file == normpath(thr[t].src)
           dst_file == normpath(thr[t].dst)
           chunk == read(fs[src_file].data, thr[t].pos)
       IN  IF chunk = <<>>
           THEN /\ goto(t, IF thr[t].op = "copy" THEN "copy_time"
                           ELSE "move_time")
                /\ lock' = release(1)
                /\ UNCHANGED fs
           ELSE /\ thr' = [thr EXCEPT ![t].pos = thr[t].pos + Len(chunk)]
                /\ fs' = write(fs, dst_file, chunk, thr[t].now)
                /\ UNCHANGED lock
    /\ unchanged_caller

\* if preserve_time: copy_modified_time(...); the lock is released
t_copy_time(t) ==
    /\ at(t, "copy_time")
    /\ LET done == IF thr[t].preserve_time
                   THEN copy_modified_time(fs, normpath(thr[t].src),
                                           normpath(thr[t].dst))
                   ELSE Ret(fs, "ok")
       IN  return(t, done.err) /\ fs' = done.fs
    /\ lock' = release(1)
    /\ unchanged_caller

\* FS.move
t_move(t, s, d, o, p, ren) ==
    begin(t, "move", s, d, o, p, MaxTime, ren, "move_exists")

\* validatepath(src_path); validatepath(dst_path);
\* if not overwrite and self.exists(_dst_path)
t_move_exists(t) ==
    /\ at(t, "move_exists")
    /\ LET _src == validatepath(fs, thr[t].src)
           _dst == validatepath(fs, thr[t].dst)
           found == exists(fs, _dst.path)
       IN  IF _src.err # "ok" THEN return(t, _src.err)
           ELSE IF _dst.err # "ok" THEN return(t, _dst.err)
           ELSE IF ~thr[t].flag /\ found.err # "ok" THEN return(t, found.err)
           ELSE IF ~thr[t].flag /\ found.val
           THEN return(t, "DestinationExists")
           ELSE goto(t, "move_getinfo")
    /\ UNCHANGED <<fs, lock>>
    /\ unchanged_caller

\* if self.getinfo(_src_path).is_dir; if _src_path == _dst_path
t_move_getinfo(t) ==
    /\ at(t, "move_getinfo")
    /\ LET _src_path == normpath(thr[t].src)
           _dst_path == normpath(thr[t].dst)
           info == getinfo(fs, _src_path)
       IN  IF info.err # "ok" THEN return(t, info.err)
           ELSE IF info.is_dir THEN return(t, "FileExpected")
           ELSE IF _src_path = _dst_path THEN return(t, "ok")
           ELSE goto(t, "move_rename")
    /\ UNCHANGED <<fs, lock>>
    /\ unchanged_caller

\* the native rename, outside the lock
t_move_rename(t) ==
    /\ at(t, "move_rename")
    /\ LET native == move_rename(fs, normpath(thr[t].src),
                                 normpath(thr[t].dst), thr[t].preserve_time,
                                 thr[t].ren)
       IN  IF native.err = "fallback"
           THEN goto(t, "move_lock") /\ UNCHANGED fs
           ELSE return(t, native.err) /\ fs' = native.fs
    /\ UNCHANGED lock
    /\ unchanged_caller

\* with self._lock; self.open(_src_path, "rb")
t_move_lock(t) ==
    /\ at(t, "move_lock")
    /\ can_acquire(t)
    /\ LET read_file == openbin_r(fs, normpath(thr[t].src))
       IN  IF read_file.err # "ok"
           THEN return(t, read_file.err) /\ UNCHANGED lock
           ELSE goto(t, "upload_open") /\ lock' = acquire(t)
    /\ UNCHANGED fs
    /\ unchanged_caller

\* if preserve_time: copy_modified_time(...)
t_move_time(t) ==
    /\ at(t, "move_time")
    /\ LET done == IF thr[t].preserve_time
                   THEN copy_modified_time(fs, normpath(thr[t].src),
                                           normpath(thr[t].dst))
                   ELSE Ret(fs, "ok")
       IN  IF done.err # "ok"
           THEN return(t, done.err) /\ lock' = release(1) /\ UNCHANGED fs
           ELSE goto(t, "move_remove") /\ fs' = done.fs /\ UNCHANGED lock
    /\ unchanged_caller

\* self.remove(_src_path); the lock is released
t_move_remove(t) ==
    /\ at(t, "move_remove")
    /\ LET removed == remove(fs, normpath(thr[t].src))
       IN  return(t, removed.err) /\ fs' = removed.fs
    /\ lock' = release(1)
    /\ unchanged_caller

ConcTrees ==
    { f \in Trees :
        /\ f[<<"a">>].kind = "dir"
        /\ f[<<"a", "b">>] = FileEntry(<<1>>, 0)
        /\ f[<<"b">>] \in {NoEntry, FileEntry(<<0>>, 0)} }

ConcPaths == {<<"a", "b">>, <<"b">>}

InitConc == construct(ConcTrees) /\ args = NoArgs

NextConc ==
    \E t \in Threads :
        \/ \E p \in ConcPaths : t_exists(t, p)
        \/ \E p \in ConcPaths : t_isfile(t, p)
        \/ \E p \in ConcPaths : t_readbytes(t, p)
        \/ \E s, d \in ConcPaths, o, p \in BOOLEAN : t_copy(t, s, d, o, p)
        \/ t_copy_lock(t)
        \/ t_copy_exists(t)
        \/ t_copy_open(t)
        \/ t_upload_open(t)
        \/ t_upload_copy(t)
        \/ t_copy_time(t)
        \/ \E s, d \in ConcPaths, o, p \in BOOLEAN, ren \in {"ok", "OSError"} :
               t_move(t, s, d, o, p, ren)
        \/ t_move_exists(t)
        \/ t_move_getinfo(t)
        \/ t_move_rename(t)
        \/ t_move_lock(t)
        \/ t_move_time(t)
        \/ t_move_remove(t)

SpecConc == InitConc /\ [][NextConc]_vars

\* FS.touch
t_touch(t, path) ==
    begin(t, "touch", path, Root, FALSE, FALSE, MaxTime, "ok", "touch_lock")

\* with self._lock; now = time.time()
t_touch_lock(t) ==
    /\ at(t, "touch_lock")
    /\ can_acquire(t)
    /\ goto(t, "create_lock")
    /\ lock' = acquire(t)
    /\ UNCHANGED fs
    /\ unchanged_caller

\* FS.create: with self._lock; if not wipe and self.exists(path)
t_create_lock(t) ==
    /\ at(t, "create_lock")
    /\ can_acquire(t)
    /\ \E found \in {exists(fs, thr[t].src)} :
           IF found.err # "ok" THEN return(t, found.err) /\ lock' = release(1)
           ELSE IF found.val THEN goto(t, "touch_setinfo") /\ UNCHANGED lock
           ELSE goto(t, "create_open") /\ lock' = acquire(t)
    /\ UNCHANGED fs
    /\ unchanged_caller

\* with closing(self.open(path, "wb")); both locks are released
t_create_open(t) ==
    /\ at(t, "create_open")
    /\ \E file \in {openbin_w(fs, thr[t].src, thr[t].now)} :
           return(t, file.err) /\ fs' = file.fs
    /\ lock' = release(2)
    /\ unchanged_caller

\* self.setinfo(path, ...); the lock is released
t_touch_setinfo(t) ==
    /\ at(t, "touch_setinfo")
    /\ \E set \in {setinfo(fs, thr[t].src, thr[t].now)} :
           return(t, set.err) /\ fs' = set.fs
    /\ lock' = release(1)
    /\ unchanged_caller

\* Threads that call copy and touch on one instance.  A thread that has
\* entered a call keeps running: the scheduler does not starve it, and a
\* thread blocked on the lock gets it once it stays free.
step(t) ==
    \/ t_copy_lock(t)
    \/ t_copy_exists(t)
    \/ t_copy_open(t)
    \/ t_upload_open(t)
    \/ t_upload_copy(t)
    \/ t_copy_time(t)
    \/ t_touch_lock(t)
    \/ t_create_lock(t)
    \/ t_create_open(t)
    \/ t_touch_setinfo(t)

NextLock ==
    \E t \in Threads :
        \/ \E s, d \in ConcPaths, o \in BOOLEAN : t_copy(t, s, d, o, TRUE)
        \/ \E p \in ConcPaths : t_touch(t, p)
        \/ step(t)

SpecLock ==
    InitConc /\ [][NextLock]_vars /\ \A t \in Threads : WF_vars(step(t))

\* FS.create called by a thread
t_create(t, path, wipe) ==
    begin(t, "create", path, Root, wipe, FALSE, MaxTime, "ok", "create_enter")

\* with self._lock; if not wipe and self.exists(path): return False
t_create_enter(t) ==
    /\ at(t, "create_enter")
    /\ can_acquire(t)
    /\ \E found \in {exists(fs, thr[t].src)} :
           IF thr[t].flag THEN goto(t, "create_write") /\ lock' = acquire(t)
           ELSE IF found.err # "ok"
           THEN return(t, found.err) /\ UNCHANGED lock
           ELSE IF found.val
           THEN /\ thr' = [thr EXCEPT ![t].pc = "done", ![t].val = FALSE]
                /\ UNCHANGED lock
           ELSE goto(t, "create_write") /\ lock' = acquire(t)
    /\ UNCHANGED fs
    /\ unchanged_caller

\* with closing(self.open(path, "wb")): pass; return True.  pos counts the
\* files the call has opened.
t_create_write(t) ==
    /\ at(t, "create_write")
    /\ \E file \in {openbin_w(fs, thr[t].src, thr[t].now)} :
           /\ thr' = [thr EXCEPT ![t].pc = "done", ![t].err = file.err,
                                 ![t].val = file.err = "ok",
                                 ![t].pos = 1]
           /\ fs' = file.fs
    /\ lock' = release(1)
    /\ unchanged_caller

\* threads that call create, and threads that ask whether a file exists
NextCreateConc ==
    \E t \in Threads :
        \/ \E p \in ConcPaths, wipe \in BOOLEAN : t_create(t, p, wipe)
        \/ t_create_enter(t)
        \/ t_create_write(t)
        \/ \E p \in ConcPaths : t_exists(t, p)

SpecCreateConc == InitConc /\ [][NextCreateConc]_vars

TypeOK ==
    /\ closed \in BOOLEAN
    /\ fs \in [Paths -> Entries]
    /\ wellformed(fs)
    /\ last.op \in {"init", "close", "exit", "isclosed", "getmeta", "lock",
                    "hassyspath", "hasurl", "validatepath", "exists",
                    "copy", "move", "movedir", "copydir",
                    "removetree", "makedirs", "create", "isdir", "isfile",
                    "opendir", "scandir", "readbytes", "download",
                    "writebytes", "appendbytes", "upload", "touch",
                    "filterdir", "hash", "writetext", "appendtext",
                    "settimes", "mutate", "match", "match_glob"}
    /\ lock.count >= 0
    /\ (lock.owner = 0) = (lock.count = 0)
    /\ \A t \in Threads : thr[t].pc = "done" => lock.owner # t

\* =================================================================== claims
\* the recorded arguments, normalized, and whether validatepath accepts them
src0 == normpath(args.src)
dst0 == normpath(args.dst)
valid_args ==
    /\ validatepath(fs0, args.src).err = "ok"
    /\ validatepath(fs0, args.dst).err = "ok"

CheckingOps == {"validatepath", "copy", "move", "movedir"}

C2_ClosedIsMonotonic ==
    [][ /\ closed => closed'
        /\ last'.op \in {"close", "exit"} => (closed' /\ last'.err = "ok")
        /\ (closed /\ last'.op \in {"close", "exit"})
               => (fs' = fs /\ meta' = meta)
        /\ (~closed /\ last'.op \notin {"close", "exit"}) => ~closed'
        /\ last'.op = "isclosed" => last'.val = closed' ]_vars

C2_Witness == closed /\ last.op = "isclosed" /\ last.val

\* C3: after a successful copy, dst exists and reads back the bytes src held
\* when the call was made, and src still exists with the same bytes.
C3_CopyCopiesContent ==
    (last.op = "copy" /\ last.err = "ok") =>
        /\ exists(fs, args.dst).val
        /\ readbytes(fs, args.dst).err = "ok"
        /\ readbytes(fs0, args.src).err = "ok"
        /\ readbytes(fs, args.dst).data = readbytes(fs0, args.src).data
        /\ fs[src0] = fs0[src0]

C3_Witness ==
    /\ last.op = "copy" /\ last.err = "ok"
    /\ fs0[src0].data # <<>>
    /\ fs0[dst0].kind = "none"

\* C4: copy with overwrite=False onto an existing dst fails with
\* DestinationExists and changes nothing; with overwrite=True, a file src
\* and a different file dst, it succeeds and dst holds exactly src's bytes.
C4_CopyOverwrite ==
    (last.op = "copy" /\ valid_args) =>
        /\ (~args.flag /\ fs0[dst0].kind # "none")
               => (last.err = "DestinationExists" /\ fs = fs0)
        /\ (/\ args.flag
            /\ fs0[dst0].kind = "file"
            /\ fs0[src0].kind = "file"
            /\ src0 # dst0)
               => (last.err = "ok" /\ fs[dst0].data = fs0[src0].data)

C4_Witness ==
    /\ last.op = "copy" /\ valid_args
    /\ ~args.flag
    /\ fs0[dst0].kind = "file"
    /\ fs0[src0].kind = "file"
    /\ src0 # dst0
    /\ last.err = "DestinationExists"

\* C5 (as stated): copy with src and dst normalizing to the same path fails
\* with IllegalDestination for both values of overwrite, and changes nothing.
C5_SamePathIsIllegal ==
    (last.op = "copy" /\ valid_args /\ src0 = dst0)
        => (last.err = "IllegalDestination" /\ fs = fs0)

\* C5 (amended): copy with src and dst normalizing to the same path changes
\* nothing and fails: with DestinationExists when overwrite is false and a
\* resource exists at the path (that check comes first), with
\* IllegalDestination otherwise.
C5_SamePathFails ==
    (last.op = "copy" /\ valid_args /\ src0 = dst0) =>
        /\ fs = fs0
        /\ last.err = IF ~args.flag /\ fs0[dst0].kind # "none"
                      THEN "DestinationExists"
                      ELSE "IllegalDestination"

C5_Witness ==
    /\ last.op = "copy" /\ valid_args
    /\ src0 = dst0
    /\ args.src # args.dst
    /\ fs0[src0].kind = "file"
    /\ last.err = "IllegalDestination"

\* C8 (as stated): move fails with DestinationExists when overwrite is false
\* and dst exists, and with IllegalDestination when src and dst normalize to
\* the same path.
C8_MoveChecksLikeCopy ==
    (last.op = "move" /\ valid_args) =>
        /\ (~args.flag /\ fs0[dst0].kind # "none")
               => last.err = "DestinationExists"
        /\ (src0 = dst0 /\ (args.flag \/ fs0[dst0].kind = "none"))
               => last.err = "IllegalDestination"

\* C8 (amended): move fails with DestinationExists when overwrite is false
\* and dst exists; when src and dst normalize to the same path it never
\* fails with IllegalDestination and changes nothing: with overwrite true it
\* returns successfully for a file, fails ResourceNotFound for a missing path
\* and FileExpected for a directory.
C8_MoveOntoItselfReturns ==
    (last.op = "move" /\ valid_args) =>
        /\ (~args.flag /\ fs0[dst0].kind # "none")
               => (last.err = "DestinationExists" /\ fs = fs0)
        /\ src0 = dst0 =>
               /\ fs = fs0
               /\ last.err # "IllegalDestination"
               /\ (args.flag \/ fs0[dst0].kind = "none") =>
                      last.err = CASE fs0[src0].kind = "none" -> "ResourceNotFound"
                                   [] fs0[src0].kind = "dir" -> "FileExpected"
                                   [] OTHER -> "ok"

C8_Witness ==
    /\ last.op = "move" /\ valid_args
    /\ src0 = dst0
    /\ args.flag
    /\ fs0[src0].kind = "file"
    /\ last.err = "ok"

\* C9: on a backend declaring supports_rename, whenever the native rename
\* of a move fails (a system path is not resolved, or os.rename fails) the
\* call ends exactly as copy-then-delete-source ends, in its error and in
\* its final tree, and a successful move leaves src's former content at dst
\* and nothing at src.
native_attempted ==
    /\ last.op = "move"
    /\ move_checks(fs0, args.src, args.dst, args.flag) = "move"
    /\ get(meta, "supports_rename", FALSE)

native_failed ==
    \/ getsyspath(fs0, src0).err # "ok"
    \/ getsyspath(fs0, dst0).err # "ok"
    \/ os_rename(fs0, src0, dst0, args.ren).err # "ok"

C9_RenameFailureNeverSurfaces ==
    native_attempted =>
        /\ native_failed =>
               LET fallback == move_fallback(fs0, src0, dst0,
                                             args.preserve_time, args.now)
               IN  last.err = fallback.err /\ fs = fallback.fs
        /\ last.err = "ok" =>
               /\ fs[dst0].kind = "file"
               /\ fs[dst0].data = fs0[src0].data
               /\ fs[src0].kind = "none"

\* C10: movedir with dst a proper descendant of src fails with
\* IllegalDestination for either value of create, also when dst does not
\* exist, and leaves the tree unchanged.
C10_MovedirIntoDescendant ==
    (last.op = "movedir" /\ valid_args /\ isbase(src0, dst0))
        => (last.err = "IllegalDestination" /\ fs = fs0)

C10_Witness ==
    /\ last.op = "movedir" /\ valid_args
    /\ isbase(src0, dst0)
    /\ fs0[src0].kind = "dir"
    /\ fs0[dst0].kind = "none"
    /\ ~args.flag
    /\ last.err = "IllegalDestination"

\* C6: while a thread is copying to dst, what another thread's exists,
\* isfile or readbytes reports about dst is either dst as it was before the
\* copy or dst holding all of src's bytes.
observers == {"exists", "isfile", "readbytes"}

C6_NoPartialCopyObserved ==
    \A t, u \in Threads :
        (/\ thr[t].op = "copy"
         /\ thr[u].op \in observers
         /\ thr[u].pc = "done"
         /\ normpath(thr[u].src) = normpath(thr[t].dst)) =>
            LET src == normpath(thr[t].src)
                dst == normpath(thr[t].dst)
            IN  /\ (thr[u].op \in {"exists", "isfile"} /\ thr[u].val)
                       => \/ fs0[dst].kind # "none"
                          \/ fs[dst].data = fs0[src].data
                /\ (thr[u].op = "readbytes" /\ thr[u].err = "ok")
                       => \/ /\ fs0[dst].kind = "file"
                             /\ thr[u].data = fs0[dst].data
                          \/ thr[u].data = fs0[src].data

\* C7: move's destination check and its write to dst are one atomic unit:
\* when a move with overwrite=False that found dst absent opens dst for
\* writing, dst is still absent.
C7_MoveCheckAndWriteAtomic ==
    \A t \in Threads :
        (/\ thr[t].op = "move"
         /\ ~thr[t].flag
         /\ thr[t].pc = "upload_open")
            => fs[normpath(thr[t].dst)].kind = "none"

\* C11 (as stated): movedir with src_path and dst_path normalizing to the
\* same directory fails with IllegalDestination.
C11_MovedirOntoItselfIsIllegal ==
    (last.op = "movedir" /\ valid_args /\ src0 = dst0)
        => last.err = "IllegalDestination"

\* C11 (amended): movedir with src_path and dst_path normalizing to the same
\* path returns without error and changes nothing, whatever is at the path
\* and whatever create is.
C11_MovedirOntoItselfReturns ==
    (last.op = "movedir" /\ valid_args /\ src0 = dst0)
        => (last.err = "ok" /\ fs = fs0)

C11_Witness ==
    /\ last.op = "movedir" /\ valid_args
    /\ src0 = dst0
    /\ args.src # args.dst
    /\ fs0[src0].kind = "dir"
    /\ children(fs0, src0) # {}
    /\ last.err = "ok"

C13_RemovetreeKeepsRoot ==
    (last.op = "removetree" /\ valid_args /\ fs0[src0].kind = "dir") =>
        /\ last.err = "ok"
        /\ \A q \in Paths : isbase(src0, q) => fs[q].kind = "none"
        /\ src0 = Root => (fs[Root] = DirEntry /\ children(fs, Root) = {})
        /\ src0 # Root => fs[src0].kind = "none"
        /\ \A q \in Paths : (q # src0 /\ ~isbase(src0, q)) => fs[q] = fs0[q]

C13_Witness ==
    /\ last.op = "removetree" /\ valid_args
    /\ src0 = Root
    /\ fs0[<<"a", "b">>].kind = "file"
    /\ fs0[<<"b">>].kind = "file"
    /\ last.err = "ok"
    /\ fs[Root] = DirEntry

\* C14: removetree never fails with DirectoryNotEmpty: every directory it
\* calls removedir on, the final one on dir_path included, has no children
\* left at that call.
C14_ChildrenRemovedFirst ==
    last.op = "removetree" => last.err # "DirectoryNotEmpty"

C14_Witness ==
    /\ last.op = "removetree" /\ valid_args
    /\ src0 = <<"a">>
    /\ fs0[<<"a", "b">>].kind = "dir"
    /\ last.err = "ok"
    /\ fs[<<"a">>].kind = "none"

\* C15: makedirs creates the missing ancestors of path from the root to the
\* leaf and then path: when no ancestor is a file and path does not exist
\* the call succeeds, path and all its ancestors are directories and nothing
\* else is changed; it never fails because a parent is missing; with path
\* already a directory it raises DirectoryExists and changes nothing if
\* recreate is false, and succeeds if recreate is true.
ancestors(p) == {prefix(p, n) : n \in 0..(Len(p) - 1)}

C15_MakedirsCreatesAncestorsFirst ==
    (last.op = "makedirs" /\ valid_args) =>
        /\ last.err # "ResourceNotFound"
        /\ last.err = "ok" =>
               /\ \A q \in ancestors(src0) \cup {src0} : fs[q] = DirEntry
               /\ \A q \in Paths \ (ancestors(src0) \cup {src0}) :
                      fs[q] = fs0[q]
        /\ (/\ fs0[src0].kind = "none"
            /\ \A q \in ancestors(src0) : fs0[q].kind # "file")
               => last.err = "ok"
        /\ fs0[src0].kind = "dir" =>
               /\ fs = fs0
               /\ last.err = IF args.flag THEN "ok" ELSE "DirectoryExists"

C15_Witness ==
    /\ last.op = "makedirs" /\ valid_args
    /\ src0 = <<"a", "b">>
    /\ fs0[<<"a">>].kind = "none"
    /\ ~args.flag
    /\ last.err = "ok"
    /\ fs[<<"a">>] = DirEntry
    /\ fs[<<"a", "b">>] = DirEntry

\* C16: create(path, wipe) returns True exactly when no resource existed at
\* path before the call, and False when the file already existed; an
\* existing file is truncated when wipe is set and keeps its content when
\* wipe is not set.
C16_CreateReturnsWhetherNew ==
    (last.op = "create" /\ valid_args /\ last.err = "ok") =>
        /\ last.val = (fs0[src0].kind = "none")
        /\ fs0[src0].kind = "file" =>
               /\ ~last.val
               /\ IF args.flag THEN fs[src0].data = <<>> ELSE fs = fs0

\* C17: exists, isdir, create, touch, readbytes, writebytes, appendbytes,
\* scandir, opendir, makedirs, removetree, upload and download validate their
\* path before any primitive: called with a path that has an invalid
\* character they fail with InvalidCharsInPath, and called on a closed
\* instance with FilesystemClosed, and in both cases no call reaches
\* getinfo, listdir, makedir, openbin, remove, removedir or setinfo (so the
\* tree is unchanged).
DerivedOps ==
    {"exists", "isdir", "create", "touch", "readbytes", "writebytes",
     "appendbytes", "scandir", "opendir", "makedirs", "removetree", "upload",
     "download"}

has_invalid_chars ==
    get(meta, "invalid_path_chars", {}) \cap pathchars(args.src) # {}

C17_DerivedOpsValidateFirst ==
    last.op \in DerivedOps =>
        /\ closed =>
               last.err = "FilesystemClosed" /\ last.prims = {} /\ fs = fs0
        /\ (~closed /\ has_invalid_chars) =>
               last.err = "InvalidCharsInPath" /\ last.prims = {} /\ fs = fs0

\* C18: validatepath checks, in this order, that the instance is open (else
\* FilesystemClosed, whatever the path), that the path has no invalid
\* character (else InvalidCharsInPath) and, when max_sys_path_length is set
\* and the system path can be resolved, that the system path is not longer
\* than the limit (else InvalidPath; a path of exactly the limit is accepted
\* and NoSysPath skips the check); only then does it return the normalized
\* absolute path.  It never modifies any state.
sys_limit == get(meta, "max_sys_path_length", -1)

C18_ValidatepathOrder ==
    last.op = "validatepath" =>
        /\ fs = fs0
        /\ closed => last.err = "FilesystemClosed"
        /\ (~closed /\ has_invalid_chars) => last.err = "InvalidCharsInPath"
        /\ (/\ ~closed /\ ~has_invalid_chars
            /\ sys_limit # -1 /\ syspath = "always"
            /\ strlen(args.src) > sys_limit) => last.err = "InvalidPath"
        /\ (/\ ~closed /\ ~has_invalid_chars
            /\ \/ sys_limit = -1
               \/ syspath = "none"
               \/ syspath = "always" /\ strlen(args.src) <= sys_limit)
               => last.err = "ok" /\ last.path = normpath(args.src)

C18_Witness ==
    /\ last.op = "validatepath"
    /\ ~closed /\ ~has_invalid_chars
    /\ syspath = "always"
    /\ strlen(args.src) = sys_limit
    /\ last.err = "ok"
    /\ last.path = <<"a", "b">>

\* C19: exists, isdir and isfile make one getinfo call and return a boolean:
\* when getinfo returns, exists is True, isdir is is_dir and isfile its
\* negation (so exactly one of isdir and isfile is true of a resource that
\* exists); when getinfo raises ResourceNotFound all three return False; any
\* other error of getinfo is raised unchanged.
C19_ExistsIsdirIsfileFromGetinfo ==
    last.op \in {"exists", "isdir", "isfile"} =>
        /\ last.prims = {"getinfo"}
        /\ fs = fs0
        /\ getinfo(fs0, args.src).err = "ok" =>
               /\ last.err = "ok"
               /\ last.op = "exists" => last.val
               /\ last.op = "isdir" => last.val = (fs0[src0].kind = "dir")
               /\ last.op = "isfile" => last.val = (fs0[src0].kind = "file")
        /\ getinfo(fs0, args.src).err = "ResourceNotFound" =>
               last.err = "ok" /\ ~last.val
        /\ getinfo(fs0, args.src).err \notin {"ok", "ResourceNotFound"} =>
               last.err = getinfo(fs0, args.src).err

C19_Witness ==
    /\ last.op = "isfile"
    /\ ~closed
    /\ getinfo(fs0, args.src).err = "ResourceNotFound"
    /\ last.err = "ok"
    /\ ~last.val

\* C20: hassyspath and hasurl never raise, for any path, in any state of
\* the instance and whatever error getsyspath or geturl produces: they
\* return True when getsyspath or geturl returns a value and False
\* otherwise.
C20_HasSyspathHasUrlNeverRaise ==
    /\ last.op = "hassyspath" =>
           /\ last.err = "ok"
           /\ last.val => syspath # "none"
           /\ syspath = "always" => last.val
    /\ last.op = "hasurl" =>
           /\ last.err = "ok"
           /\ last.val => url # "none"
           /\ url = "always" => last.val

\* C21: filterdir yields, in scandir order, exactly the entries of the
\* directory that pass every active filter: a file is kept iff (files is
\* not active or its name matches some pattern of files) and (exclude_files
\* is not active or its name matches no pattern of exclude_files); a
\* directory is kept iff the same holds of dirs and exclude_dirs.  A filter
\* is active when patterns are given for it.  Directories are not affected by
\* files / exclude_files, nor files by dirs / exclude_dirs.
case_sensitive == ~get(meta, "case_insensitive", FALSE)

matches_some(patterns, q) ==
    \E i \in 1..Len(patterns.items) :
        IF case_sensitive THEN wild(patterns.items[i], segname(q[Len(q)]))
        ELSE wild(casefold(patterns.items[i]), casefold(segname(q[Len(q)])))

kept(q, include, exclude) ==
    /\ truthy(include) => matches_some(include, q)
    /\ truthy(exclude) => ~matches_some(exclude, q)

C21_FilterdirKeepsByType ==
    (last.op = "filterdir" /\ last.err = "ok") =>
        last.names =
            SelectSeq(last.listing,
                      LAMBDA q : IF fs0[q].kind = "dir"
                                 THEN kept(q, args.dirs, args.exclude_dirs)
                                 ELSE kept(q, args.files, args.exclude_files))

C21_Witness ==
    /\ last.op = "filterdir" /\ last.err = "ok"
    /\ src0 = Root
    /\ fs0[<<"a">>].kind = "file" /\ fs0[<<"b">>].kind = "dir"
    /\ args.files = List(<<(<<"a">>)>>)
    /\ args.dirs = None /\ args.exclude_dirs = None /\ args.exclude_files = None
    /\ last.listing = <<(<<"b">>), (<<"a">>)>>
    /\ last.names = <<(<<"b">>), (<<"a">>)>>

\* C22: a composite operation that calls another lock-taking composite on
\* the same instance from the same thread (touch calling create, copy
\* calling upload) never deadlocks on the instance lock, and with several
\* threads contending for one instance every thread's call eventually
\* completes.
C22_EveryCallCompletes ==
    \A t \in Threads : (thr[t].pc # "idle") ~> (thr[t].pc = "done")

\* a thread holds the lock twice while the other waits for it
C22_Witness ==
    /\ lock.count = 2
    /\ \E t \in Threads :
           /\ lock.owner # t
           /\ thr[t].pc \in {"copy_lock", "touch_lock"}

\* C23: hash(path, name) on a closed instance fails with FilesystemClosed;
\* on an open instance and a valid path it fails with UnsupportedHash when
\* the algorithm is not supported and, with a supported algorithm, with
\* ResourceNotFound when path does not exist and FileExpected when path is a
\* directory.  hash never modifies the file or any other state.
C23_HashErrors ==
    last.op = "hash" =>
        /\ fs = fs0
        /\ closed => last.err = "FilesystemClosed"
        /\ (~closed /\ valid_args) =>
               /\ args.name \notin algorithms => last.err = "UnsupportedHash"
               /\ (args.name \in algorithms /\ fs0[src0].kind = "none")
                      => last.err = "ResourceNotFound"
               /\ (args.name \in algorithms /\ fs0[src0].kind = "dir")
                      => last.err = "FileExpected"
               /\ (args.name \in algorithms /\ fs0[src0].kind = "file")
                      => last.err = "ok"

C23_Witness ==
    /\ last.op = "hash" /\ ~closed /\ valid_args
    /\ args.name \notin algorithms
    /\ fs0[src0].kind = "none"
    /\ last.err = "UnsupportedHash"

\* C24: the digest returned by hash depends only on the content of the file
\* and on the algorithm: it is the digest of the whole content absorbed at
\* once, whatever the instance, the path, and the length of the content
\* (empty, shorter than a chunk, exactly one chunk, not a multiple of the
\* chunk size).
C24_DigestOfContentOnly ==
    (last.op = "hash" /\ last.err = "ok") =>
        last.digest = update(args.name, 0, fs0[src0].data)

C24_Witness ==
    /\ last.op = "hash" /\ last.err = "ok"
    /\ Len(fs0[src0].data) > HashChunk
    /\ Len(fs0[src0].data) % HashChunk # 0
    /\ last.digest = update(args.name, 0, fs0[src0].data)
    /\ last.digest # update(args.name, 0, SubSeq(fs0[src0].data, 1, HashChunk))

\* C25: writebytes and appendbytes given a value that is not bytes, and
\* writetext and appendtext given a value that is not a str, fail with a
\* type error, and the check precedes any open: the failing call creates no
\* file and neither truncates nor changes an existing one.
C25_TypeErrorBeforeOpen ==
    /\ (last.op \in {"writebytes", "appendbytes"} /\ args.value.type # "bytes")
           => last.err = "TypeError" /\ fs = fs0
    /\ (last.op \in {"writetext", "appendtext"} /\ args.value.type # "str")
           => last.err = "TypeError" /\ fs = fs0

C25_Witness ==
    /\ last.op = "writebytes"
    /\ args.value = str(<<1>>)
    /\ fs0[src0] = FileEntry(<<0>>, 0)
    /\ validatepath(fs0, args.src).err = "ok"
    /\ last.err = "TypeError"
    /\ fs = fs0

\* C26: touch(path) creates an empty file when no resource exists at path
\* and issues no setinfo in that case; when the file already exists it
\* leaves the content unchanged and issues exactly one setinfo, whose
\* details set accessed and modified to one and the same "now" value.
C26_TouchCreatesOrSetsTimes ==
    (last.op = "touch" /\ ~closed /\ valid_args) =>
        /\ (fs0[src0].kind = "none" /\ last.err = "ok") =>
               /\ fs[src0].kind = "file" /\ fs[src0].data = <<>>
               /\ last.setinfo = <<>>
        /\ (fs0[src0].kind = "none" /\ fs0[dirname(src0)].kind = "dir")
               => last.err = "ok"
        /\ fs0[src0].kind = "file" =>
               /\ last.err = "ok"
               /\ fs[src0].data = fs0[src0].data
               /\ last.setinfo =
                      <<[accessed |-> args.now, modified |-> args.now]>>
        /\ \A q \in Paths \ {src0} : fs[q] = fs0[q]

C26_Witness ==
    /\ last.op = "touch" /\ ~closed /\ valid_args
    /\ fs0[src0] = FileEntry(<<1>>, 0)
    /\ last.err = "ok"
    /\ fs[src0] = FileEntry(<<1>>, args.now)
    /\ last.setinfo = <<[accessed |-> args.now, modified |-> args.now]>>

\* C27: settimes(path, accessed, modified) issues one setinfo with
\* details.accessed = accessed, or the current time when accessed is not
\* given, and details.modified = modified, or the value of details.accessed
\* when modified is not given; nothing else about the resource is changed.
given(d, default) == IF d = NoTime THEN default ELSE d.epoch

C27_SettimesDefaults ==
    last.op = "settimes" =>
        /\ last.setinfo =
               <<[accessed |-> given(args.accessed, args.now),
                  modified |-> given(args.modified,
                                     given(args.accessed, args.now))]>>
        /\ \A q \in Paths :
               /\ fs[q].kind = fs0[q].kind
               /\ fs[q].data = fs0[q].data
               /\ q # src0 => fs[q] = fs0[q]
        /\ (valid_args /\ fs0[src0].kind = "file") =>
               /\ last.err = "ok"
               /\ fs[src0].modified = last.setinfo[1].modified

C27_Witness ==
    /\ last.op = "settimes" /\ valid_args
    /\ args.accessed = datetime(0) /\ args.modified = NoTime
    /\ args.now = 1
    /\ fs0[src0] = FileEntry(<<1>>, 0)
    /\ last.err = "ok"
    /\ last.setinfo = <<[accessed |-> 0, modified |-> 0]>>

\* C28: getmeta never fails and is constant for the life of the instance:
\* for the "standard" namespace it returns a mapping equal to the capability
\* map of the instance and for any other namespace an empty mapping; the
\* capability map is the same in every reachable state, whatever operations
\* ran in between, and a caller who mutates a mapping that getmeta returned
\* does not change it (nor, then, what match, validatepath and move read).
C28_GetmetaConstant ==
    /\ [](last.op = "getmeta" =>
              /\ last.err = "ok"
              /\ last.mapping = IF last.namespace = "standard" THEN meta
                                ELSE EmptyMeta)
    /\ [][meta' = meta]_vars

C28_Witness ==
    /\ last.op = "mutate"
    /\ last.namespace = "standard"
    /\ last.mapping # meta

\* C29: match(patterns, name) is case-sensitive exactly when the capability
\* map of the instance does not declare case_insensitive true (a missing key
\* means case-sensitive): with a list of patterns it returns whether name
\* matches some pattern, compared as written on a case-sensitive instance
\* and with case folded on a case-insensitive one, so match(["*.py"],
\* "init.py") is true, and match(["*.PY"], "init.py") is false on a
\* case-sensitive instance and true on a case-insensitive one; with patterns
\* None it returns True for every name.
C29_MatchCaseSensitivity ==
    last.op = "match" =>
        /\ args.patterns = None => last.err = "ok" /\ last.val
        /\ truthy(args.patterns) /\ args.patterns.kind = "list" =>
               /\ last.err = "ok"
               /\ last.val =
                      \E i \in 1..Len(args.patterns.items) :
                          IF "case_insensitive" \in DOMAIN meta
                             /\ meta.case_insensitive
                          THEN wild(casefold(args.patterns.items[i]),
                                    casefold(args.name))
                          ELSE wild(args.patterns.items[i], args.name)
        /\ args.patterns = List(<<star_py>>) /\ args.name = init_py =>
               last.val
        /\ args.patterns = List(<<star_PY>>) /\ args.name = init_py =>
               (last.val <=> ("case_insensitive" \in DOMAIN meta
                              /\ meta.case_insensitive))

C29_Witness ==
    /\ last.op = "match"
    /\ args.patterns = List(<<star_PY>>) /\ args.name = init_py
    /\ "case_insensitive" \in DOMAIN meta /\ meta.case_insensitive
    /\ last.err = "ok" /\ last.val

\* C30 (as stated): match and match_glob reject a single string passed as
\* patterns: for every name or path the call fails with a type error and
\* never returns a boolean obtained by treating the characters of the string
\* as separate patterns.
C30_StringPatternsTypeError ==
    (last.op \in {"match", "match_glob"} /\ args.patterns.kind = "str") =>
        last.err = "TypeError"

\* C30 (amended): match and match_glob never return a boolean when a single
\* string is passed as patterns: match fails with a type error for every
\* name; match_glob fails with a type error for every path that starts with
\* "/", and for a path that is empty or does not start with "/" it fails
\* with the input error of the path, which it tests first.
C30_StringPatternsRejected ==
    (last.op \in {"match", "match_glob"} /\ args.patterns.kind = "str") =>
        last.err =
            IF last.op = "match_glob"
               /\ (args.name = <<>> \/ Head(args.name) # "/")
            THEN "ValueError"
            ELSE "TypeError"

C30_Witness ==
    /\ last.op = "match"
    /\ args.patterns = Str(<<"a">>) /\ args.name = <<"a">>
    /\ last.err = "TypeError"

\* C31: match_glob(patterns, path, accept_prefix) fails with an input error
\* (ValueError) for every path that is empty or does not start with "/",
\* whatever patterns is (None included) and for both values of
\* accept_prefix.
C31_GlobPathMustBeRooted ==
    (last.op = "match_glob"
        /\ (args.name = <<>> \/ Head(args.name) # "/")) =>
        last.err = "ValueError"

\* C32: with accept_prefix false match_glob accepts only a path that one of
\* the patterns matches; with accept_prefix true it also accepts a path that
\* can still gain trailing segments to become a path that a pattern matches.
\* So match_glob(["dir/file.txt"], "/dir/", accept_prefix=True) is true and
\* the same call with accept_prefix=False is false, match_glob(
\* ["dir/file.txt"], "/dir/gile.txt", accept_prefix=True) is false, and every
\* path accepted with accept_prefix false is accepted with accept_prefix
\* true.
gains_segments(path, longer) ==
    /\ Len(longer) > Len(path)
    /\ SubSeq(longer, 1, Len(path)) = path
    /\ path[Len(path)] = "/" \/ longer[Len(path) + 1] = "/"

matched_as_written(patterns, path) ==
    \E i \in 1..Len(patterns.items) :
        IF case_sensitive THEN glob_match(patterns.items[i], path)
        ELSE glob_imatch(patterns.items[i], path)

C32_GlobAcceptPrefix ==
    (last.op = "match_glob" /\ last.err = "ok" /\ truthy(args.patterns)) =>
        /\ ~args.accept_prefix =>
               last.val = matched_as_written(args.patterns, args.name)
        /\ args.accept_prefix =>
               /\ matched_as_written(args.patterns, args.name) => last.val
               /\ \A longer \in GlobPaths :
                      (gains_segments(args.name, longer)
                          /\ matched_as_written(args.patterns, longer))
                          => last.val
        /\ (args.patterns = List(<<dir_file_txt>>)
               /\ args.name = <<"/", "d", "i", "r", "/">>) =>
               last.val = args.accept_prefix
        /\ (args.patterns = List(<<dir_file_txt>>)
               /\ args.name = <<"/">> \o dir_gile_txt) =>
               ~last.val

C32_Witness ==
    /\ last.op = "match_glob" /\ last.err = "ok"
    /\ args.patterns = List(<<dir_file_txt>>)
    /\ args.name = <<"/", "d", "i", "r", "/">>
    /\ args.accept_prefix
    /\ last.val

\* C33: closing a TempFS removes its temporary directory: the directory that
\* getsyspath("/") names exists from construction until close(), and does
\* not exist once a close() has returned (unless removing it failed, which
\* the caller asked to have ignored).
temp_dir_exists == fs[Root].kind = "dir"

C34_CleanErrorReported ==
    (temp.is_temp /\ last.op = "close" /\ ~temp.ignore_clean_errors
        /\ temp.rmtree # "ok") =>
        last.err = "OperationFailed"

C34_Witness ==
    /\ temp.is_temp
    /\ last.op = "close"
    /\ ~temp.ignore_clean_errors /\ temp.rmtree = "boom"
    /\ fs[<<"a">>].kind = "file"
    /\ last.err = "OperationFailed"

\* C35: _has_drive_letter is true exactly for the strings that begin with
\* one single character followed by a colon and then a path separator ("/"
\* or "\"), so "D:/Data" and "C:\System32\ test" are detected and
\* "/tmp/abc:test" is not; url_quote on a drive-letter platform leaves that
\* character and the colon as they are and percent-encodes only what
\* follows them, and on every other platform percent-encodes the whole
\* string by the standard rule.
begins_with_drive(string) ==
    /\ Len(string) >= 3
    /\ string[2] = ":"
    /\ string[3] \in {"/", "\\"}

drive_kept(string, remainder) ==
    [err |-> remainder.err,
     text |-> IF remainder.err = "ok"
              THEN <<string[1], ":">> \o remainder.text ELSE <<>>]

C35_DriveLetterKept ==
    /\ last.op = "has_drive_letter" =>
           /\ last.val = begins_with_drive(args.path_snippet)
           /\ args.path_snippet \in {D_Data, C_System32_test} => last.val
           /\ args.path_snippet = tmp_abc_test => ~last.val
    /\ (last.op = "url_quote" /\ ~args.windows) =>
           last.err = "ok" /\ last.text = quote(args.path_snippet)
    /\ (last.op = "url_quote" /\ args.windows
           /\ begins_with_drive(args.path_snippet)) =>
           [err |-> last.err, text |-> last.text] =
               drive_kept(args.path_snippet,
                          pathname2url(TRUE, SubSeq(args.path_snippet, 3,
                                                    Len(args.path_snippet))))

C37_LockNeverLeaked ==
    /\ [](\A t \in Threads :
              thr[t].pc \in {"idle", "done"} => lock.owner # t)
    /\ []((\A t \in Threads : thr[t].pc \in {"idle", "done"})
              => lock = NoLock)
    /\ \A t \in Threads : \A u \in Threads \ {t} :
           (thr[t].pc = "done" /\ thr[t].err # "ok"
               /\ thr[u].pc \notin {"idle", "done"})
               ~> (thr[u].pc = "done")

C37_Witness ==
    /\ thr[1].pc = "done" /\ thr[1].op = "copy"
    /\ thr[1].err = "DestinationExists"
    /\ thr[2].op = "touch" /\ lock.owner = 2 /\ lock.count = 2

\* C38: the check-then-act of create is atomic among the callers of create
\* on one instance: when several threads call create(path, wipe=False)
\* concurrently for the same absent path, exactly one call returns True and
\* all the others return False, and the file is opened for write-truncate
\* exactly once.
creators(path) ==
    {t \in Threads : thr[t].op = "create" /\ normpath(thr[t].src) = path
                        /\ ~thr[t].flag}

C38_CreateIsAtomic ==
    \A path \in ConcPaths :
        (/\ fs0[path].kind = "none"
         /\ creators(path) # {}
         /\ \A t \in creators(path) : thr[t].pc = "done" /\ thr[t].err = "ok"
         /\ \A t \in Threads \ creators(path) : thr[t].op # "create") =>
            /\ Cardinality({t \in creators(path) : thr[t].val}) = 1
            /\ Cardinality({t \in creators(path) : thr[t].pos = 1}) = 1

C38_Witness ==
    /\ fs0[<<"b">>].kind = "none"
    /\ creators(<<"b">>) = Threads
    /\ \A t \in Threads : thr[t].pc = "done" /\ thr[t].err = "ok"
    /\ thr[1].val /\ ~thr[2].val
    /\ fs[<<"b">>].kind = "file"

\* C39: paging selects an index range [start, end) of the sequence produced:
\* scandir(path, page=(s, e)) yields exactly the children at positions
\* s..e-1 of listdir(path), in that order, and filterdir(path, ...,
\* page=(s, e)) yields positions s..e-1 of the sequence that remains after
\* filtering (the page is applied after the filters, not before); a range
\* beyond the end yields fewer entries or none and never raises.
positions(sequence, page) ==
    [i \in 1..(IF Len(sequence) < page[2] THEN Len(sequence) - page[1]
               ELSE page[2] - page[1])
        |-> sequence[page[1] + i]]

C39_PageIsIndexRange ==
    (last.op \in {"scandir", "filterdir"} /\ valid_args
        /\ fs0[src0].kind = "dir" /\ args.page # NoPage) =>
        /\ last.err = "ok"
        /\ last.op = "scandir" =>
               last.names = positions(last.listing, args.page)
        /\ last.op = "filterdir" =>
               last.names =
                   positions(SelectSeq(last.listing,
                                 LAMBDA q :
                                     IF fs0[q].kind = "dir"
                                     THEN kept(q, args.dirs, args.exclude_dirs)
                                     ELSE kept(q, args.files,
                                               args.exclude_files)),
                             args.page)

C39_Witness ==
    /\ last.op = "filterdir" /\ last.err = "ok"
    /\ src0 = Root
    /\ fs0[<<"a">>].kind = "file" /\ fs0[<<"b">>].kind = "file"
    /\ case_sensitive
    /\ args.files = List(<<(<<"[", "b", "]">>), (<<"A">>)>>)
    /\ args.exclude_dirs = None
    /\ args.page = <<0, 1>>
    /\ last.listing = <<(<<"a">>), (<<"b">>)>>
    /\ last.names = <<(<<"b">>)>>

====
